---- MODULE Spec2Model ----
(***************************************************************************)
(* A model of orb15/backup: the traversal/exclusion engine (walker.go),    *)
(* the digest pool (hashAllFiles / hashFilesInChannel), the transfer pool  *)
(* (writeAllObjectsToS3 / storeFilesInChannel), the failure manifest       *)
(* (displayStorageStats, buildReprocessingList) and main's sequencing.     *)
(*                                                                         *)
(* Conventions.                                                            *)
(*  - A name is a sequence of one-character strings, a path a sequence of  *)
(*    names (the components that filepath.Join puts together).             *)
(*  - A *domain.FileInfo is an index into allObjectsList: the slices the   *)
(*    code passes around hold pointers, so objectsToStore, the channels    *)
(*    and a worker's fi are sequences of, or single, indices.              *)
(*  - A value the code reads from domain.Config is drawn when the getter   *)
(*    is first called and kept in cfg from then on (the configuration is   *)
(*    immutable for the run); the digest pool's size and budget are read   *)
(*    once, by hashAllFiles, and live on in the goroutines only.           *)
(***************************************************************************)
EXTENDS Integers, Sequences, FiniteSets, TLC

(***************************************************************************)
(* Bounds of the model.                                                    *)
(***************************************************************************)
\* the largest pool size (HashRoutinesCount, StorageRoutinesCount) drawn
MaxRoutines == 2
\* the largest per-worker error budget drawn
MaxChannelErrors == 1
\* the largest global hash-failure maximum drawn
MaxHashFailures == 2
\* the largest StorageRetryCount drawn in a full run
MaxRetryCount == 2

(***************************************************************************)
(* Names and paths.                                                        *)
(***************************************************************************)
Chars == {".", "a", "b", "c", "d", "g", "s"}

\* the byte order Go's sort.Strings uses on these characters
CharCode(c) ==
    CASE c = "." -> 46
      [] c = "a" -> 97
      [] c = "b" -> 98
      [] c = "c" -> 99
      [] c = "d" -> 100
      [] c = "g" -> 103
      [] c = "s" -> 115

RECURSIVE LessName(_, _)
LessName(a, b) ==
    IF a = <<>> THEN b # <<>>
    ELSE IF b = <<>> THEN FALSE
    ELSE IF CharCode(Head(a)) # CharCode(Head(b))
         THEN CharCode(Head(a)) < CharCode(Head(b))
         ELSE LessName(Tail(a), Tail(b))

\* strings.HasPrefix(name, ".")
HasDotPrefix(name) == Len(name) >= 1 /\ name[1] = "."

BaseName(path) == path[Len(path)]
Parent(path) == SubSeq(path, 1, Len(path) - 1)
IsUnder(q, p) == Len(q) > Len(p) /\ SubSeq(q, 1, Len(p)) = p

Nd == <<"d">>
Na == <<"a">>
Nb == <<"b">>
Nc == <<"c">>
Ns == <<"s">>
Ng == <<".", "g">>

\* every path a modelled filesystem may hold
Universe ==
    { <<Nd>>,
      <<Nd, Ng>>, <<Nd, Ng, Nc>>,
      <<Nd, Na>>,
      <<Nd, Ns>>, <<Nd, Ns, Nb>> }

(***************************************************************************)
(* The filesystem a run sees.  dirs and files are the entries that exist,  *)
(* bad the entries for which lstat or the directory read fails.            *)
(***************************************************************************)
ParentClosed(present) ==
    \A p \in present : Len(p) > 1 => Parent(p) \in present

HasChild(present, p) == \E q \in present : Len(q) > 1 /\ Parent(q) = p

Presents == { S \in SUBSET Universe : <<Nd>> \in S /\ ParentClosed(S) }

WorldsOf(present) ==
    { [dirs |-> d, files |-> present \ d, bad |-> b] :
        d \in { x \in SUBSET present : \A p \in present : HasChild(present, p) => p \in x },
        b \in {{}} \cup { {p} : p \in present } }

Worlds == UNION { WorldsOf(present) : present \in Presents }

Exists(w, p) == p \in w.dirs \cup w.files

\* os.FileInfo of an entry
IsDir(w, p) == p \in w.dirs
SizeOf(w, p) == IF p \in w.dirs THEN 0 ELSE Len(p)

(***************************************************************************)
(* The full path as the string the rules are matched against.              *)
(***************************************************************************)
Sep == "\\"

RECURSIVE PathString(_)
PathString(path) ==
    IF path = <<>> THEN <<>>
    ELSE IF Len(path) = 1 THEN path[1]
    ELSE path[1] \o <<Sep>> \o PathString(Tail(path))

\* an exclusion rule's compiled pattern: a literal, anywhere in the string
\* or (anchored) at its end
MatchString(regex, str) ==
    LET n == Len(regex.lit)
    IN  IF regex.anchored
        THEN Len(str) >= n /\ SubSeq(str, Len(str) - n + 1, Len(str)) = regex.lit
        ELSE \E i \in 1..(Len(str) - n + 1) : SubSeq(str, i, i + n - 1) = regex.lit

\* the rule lists a configuration may hold, in the order of their ids
RuleLists ==
    { <<>>,
      << [Id |-> 1, Regex |-> [lit |-> <<"a">>, anchored |-> TRUE]] >>,
      << [Id |-> 1, Regex |-> [lit |-> <<"s">>, anchored |-> FALSE]] >>,
      << [Id |-> 1, Regex |-> [lit |-> <<"s">>, anchored |-> TRUE]] >>,
      << [Id |-> 1, Regex |-> [lit |-> <<"a">>, anchored |-> TRUE]],
         [Id |-> 2, Regex |-> [lit |-> <<"s">>, anchored |-> TRUE]] >> }

\* walker.go skipThisObject
\* (a variant without the hard-coded rule)
SkipThisObjectRulesOnly(exclusions, w, path) ==
    \E i \in 1..Len(exclusions) : MatchString(exclusions[i].Regex, PathString(path))

SkipThisObject(exclusions, w, path) ==
    \/ IsDir(w, path) /\ HasDotPrefix(BaseName(path))
    \/ \E i \in 1..Len(exclusions) : MatchString(exclusions[i].Regex, PathString(path))

(***************************************************************************)
(* filepath.Walk reads a directory's names sorted.                         *)
(***************************************************************************)
Children(w, p) == { q \in w.dirs \cup w.files : Len(q) = Len(p) + 1 /\ Parent(q) = p }

RECURSIVE SortedPaths(_)
SortedPaths(S) ==
    IF S = {} THEN <<>>
    ELSE LET m == CHOOSE x \in S :
                    \A y \in S \ {x} : LessName(BaseName(x), BaseName(y))
         IN  <<m>> \o SortedPaths(S \ {m})

\* a fresh domain.FileInfo
NewFileInfo(name, size, excluded) ==
    [FullName |-> name, Size |-> size, Excluded |-> excluded,
     Hash |-> "", HashSuccess |-> FALSE, StorageSuccess |-> FALSE]

(***************************************************************************)
(* walker.go buildFileList: the anonymous WalkFunc and filepath.Walk's     *)
(* use of what it returns.                                                 *)
(***************************************************************************)
\* (a variant that returns SkipDir for an excluded file as well)
WalkFnReturnSkipDirForFile(exclusions, w, path) ==
    IF SkipThisObject(exclusions, w, path) THEN "SkipDir" ELSE "nil"

\* (a variant that never returns SkipDir)
WalkFnReturnNeverSkipDir(exclusions, w, path) == "nil"

\* what the WalkFunc returns for an entry that was read without error
WalkFnReturn(exclusions, w, path) ==
    IF IsDir(w, path) /\ SkipThisObject(exclusions, w, path)
    THEN "SkipDir"
    ELSE "nil"

\* (a variant that leaves a directory it descends into not excluded)
WalkFnRecordDirsIncluded(exclusions, w, path) ==
    NewFileInfo(path, SizeOf(w, path), SkipThisObject(exclusions, w, path))

\* the record the WalkFunc appends for such an entry
WalkFnRecord(exclusions, w, path) ==
    IF SkipThisObject(exclusions, w, path) \/ IsDir(w, path)
    THEN NewFileInfo(path, SizeOf(w, path), TRUE)
    ELSE NewFileInfo(path, SizeOf(w, path), FALSE)

\* filepath.Walk, on SkipDir returned for a file: the rest of the file's
\* directory is skipped
RECURSIVE DropSiblings(_, _)
DropSiblings(todo, path) ==
    IF todo # <<>> /\ Len(Head(todo)) = Len(path) /\ Parent(Head(todo)) = Parent(path)
    THEN DropSiblings(Tail(todo), path)
    ELSE todo

\* a walk that goes on after an entry it could not read
WalkStepPastErrors(exclusions, w, st) ==
    LET path == Head(st.todo)
        rest == Tail(st.todo)
    IN  IF ~Exists(w, path) \/ path \in w.bad
        THEN [todo |-> rest, info |-> st.info, err |-> FALSE]
        ELSE [todo |-> IF IsDir(w, path) /\ WalkFnReturn(exclusions, w, path) = "nil"
                       THEN SortedPaths(Children(w, path)) \o rest
                       ELSE rest,
              info |-> Append(st.info, WalkFnRecord(exclusions, w, path)),
              err |-> FALSE]

\* one visit of filepath.Walk: st is [todo, info, err], the entries still to
\* visit (next first), the list so far and whether the walk has failed
WalkStep(exclusions, w, st) ==
    LET path == Head(st.todo)
        rest == Tail(st.todo)
    IN  IF ~Exists(w, path) \/ path \in w.bad
        THEN \* lstat or the directory read failed: the WalkFunc returns err
             [todo |-> <<>>, info |-> st.info, err |-> TRUE]
        ELSE LET ret == WalkFnReturn(exclusions, w, path)
             IN  [todo |-> IF ret = "SkipDir"
                           THEN IF IsDir(w, path) THEN rest ELSE DropSiblings(rest, path)
                           ELSE IF IsDir(w, path)
                                THEN SortedPaths(Children(w, path)) \o rest
                                ELSE rest,
                  info |-> Append(st.info, WalkFnRecord(exclusions, w, path)),
                  err |-> FALSE]

RECURSIVE WalkLoop(_, _, _)
WalkLoop(exclusions, w, st) ==
    IF st.todo = <<>> THEN st ELSE WalkLoop(exclusions, w, WalkStep(exclusions, w, st))

RECURSIVE BuildFrom(_, _, _, _, _)
BuildFrom(exclusions, w, basePaths, i, info) ==
    IF i > Len(basePaths)
    THEN [list |-> info, err |-> FALSE]
    ELSE LET st == WalkLoop(exclusions, w,
                            [todo |-> <<basePaths[i]>>, info |-> info, err |-> FALSE])
         IN  IF st.err
             THEN [list |-> <<>>, err |-> TRUE]
             ELSE BuildFrom(exclusions, w, basePaths, i + 1, st.info)

\* buildFileList as a function of the configuration and the filesystem
BuildFileList(config, w) == BuildFrom(config.Exclusions, w, config.BasePaths, 1, <<>>)

\* the lists of base paths a configuration may hold
BasePathLists ==
    { << <<Nd>> >>,
      << <<Nd>>, <<Nd>> >>,
      << <<Nd>>, <<Nd, Ns>> >>,
      << <<Nd, Ns>>, <<Nd>> >>,
      << <<Nd>>, <<Nd, Ng, Nc>> >>,
      << <<Nd>>, <<Nd, Ns, Nb>> >> }

(***************************************************************************)
(* State.                                                                  *)
(***************************************************************************)
VARIABLES
    world,          \* the filesystem
    fate,           \* per file, what hashing, opening and putting it will do
    failuresFile,   \* the failures file on disk
    cfg,            \* what domain.Config has returned so far
    pc,             \* main's position
    exitCode,       \* the process's exit status, -1 while it runs
    cause,          \* why the process ended
    walkIdx,        \* buildFileList: index of the base path being walked
    walkTodo,       \* filepath.Walk: the entries still to visit, next first
    allInfo,        \* buildFileList: the list under construction
    failures,       \* buildReprocessingList: the parsed failures file
    fileData,       \* buildReprocessingList: the list under construction
    choice,         \* buildReprocessingList: the number the menu has scanned last
    allObjectsList, \* main: every record of the run (the records themselves)
    listErr,        \* main: err after the list was built
    objectsToStore, \* main: the records displayFileStats returned (indices)
    hashCh,         \* hashAllFiles: the channel (indices)
    hashW,          \* the hashFilesInChannel goroutines
    hashCount,      \* per record, how often hashFile was called on it
    storeCh,        \* writeAllObjectsToS3: the channel (indices)
    storeW,         \* the storeFilesInChannel goroutines
    storeLog,       \* per record, the opens, puts and sleeps done for it
    bucketCreated,  \* whether CreateBucket has succeeded
    poi,            \* storeFilesInChannel: the inputs PutObject was called with
    failedFilesDetails, \* main: what displayStorageStats returned
    manifestWrites, \* how often the failures file was written in this run
    lastRun,        \* history: the records of the run before this one, if any
    sampleFileList, \* handleDryrun: the paths of the sample it printed, if any
    filename,       \* toKey: its argument, when it is called on its own
    key,            \* toKey: what it returned for filename
    backoff         \* calcBackoff: its argument, its locals and what it returned

envVars == <<world, fate, filename, key, backoff>>
walkVars == <<walkIdx, walkTodo, allInfo>>
reprocVars == <<failures, fileData, choice>>
listVars == <<allObjectsList, listErr, objectsToStore>>
hashVars == <<hashCh, hashW, hashCount>>
storeVars == <<storeCh, storeW, storeLog, bucketCreated, poi>>
diskVars == <<failuresFile, failedFilesDetails, manifestWrites, lastRun, sampleFileList>>
vars == <<world, fate, failuresFile, cfg, pc, exitCode, cause, walkIdx, walkTodo, allInfo,
          failures, lastRun, fileData, allObjectsList, listErr, objectsToStore, hashCh, hashW, hashCount,
          storeCh, storeW, storeLog, bucketCreated, failedFilesDetails, manifestWrites,
          sampleFileList, filename, key, choice, poi, backoff>>

Routines == 1..MaxRoutines

\* calcBackoff was not called
NoBackoff == [pc |-> "call", exponent |-> 0, i |-> 0, total |-> <<>>,
              duration |-> [neg |-> FALSE, ns |-> <<0>>], err |-> FALSE]

\* a goroutine that was not started, or whose function has returned
NoHashRoutine == [pc |-> "none", errCount |-> 0, maxAllowedErrors |-> 0, fi |-> 0]
NoStoreRoutine == [pc |-> "none", errCount |-> 0, fi |-> 0, storageErrorCount |-> 0]

\* the configuration's value for a getter: the one it returned before, or any
\* of dom when the getter is called for the first time
Read(name, dom) == IF name \in DOMAIN cfg THEN {cfg[name]} ELSE dom
Got(name, v) == IF name \in DOMAIN cfg THEN cfg ELSE cfg @@ (name :> v)

\* what hashFile, os.Open and PutObject (the attempt-th put of the file) may
\* do for a file: what its fate says, or anything when it has none
HashOutcomes(name) == IF name \in DOMAIN fate THEN {fate[name].hash} ELSE BOOLEAN
OpenOutcomes(name) == IF name \in DOMAIN fate THEN {fate[name].open} ELSE BOOLEAN
PutOutcomes(name, attempt) ==
    IF name \in DOMAIN fate THEN {attempt > fate[name].putFailures} ELSE BOOLEAN

\* no file has a fate: the filesystem and the store are free
NoFate == [name \in {} |-> TRUE]

\* os.Exit, directly or by logger.Fatalw
Exit(code, why) ==
    /\ pc' = "exited"
    /\ exitCode' = code
    /\ cause' = why

(***************************************************************************)
(* walker.go buildFileList.                                                *)
(***************************************************************************)
\* the for loop over BasePaths: filepath.Walk starts on the next base path,
\* or the list is returned when there is none left
BuildFileListNextPath ==
    /\ pc = "buildFileList"
    /\ walkTodo = <<>>
    /\ IF walkIdx < Len(cfg.BasePaths)
       THEN /\ walkIdx' = walkIdx + 1
            /\ walkTodo' = << cfg.BasePaths[walkIdx + 1] >>
            /\ UNCHANGED <<pc, allInfo, allObjectsList, listErr>>
       ELSE /\ allObjectsList' = allInfo
            /\ listErr' = FALSE
            /\ pc' = "listBuilt"
            /\ UNCHANGED <<walkIdx, walkTodo, allInfo>>
    /\ UNCHANGED <<envVars, cfg, exitCode, cause, reprocVars, objectsToStore,
                   hashVars, storeVars, diskVars>>

\* one call of the anonymous WalkFunc, on the next entry filepath.Walk visits
WalkFn ==
    /\ pc = "buildFileList"
    /\ walkTodo # <<>>
    /\ LET st == WalkStep(cfg.Exclusions, world,
                          [todo |-> walkTodo, info |-> allInfo, err |-> FALSE])
       IN  IF st.err
           THEN \* the walk stops and buildFileList returns nil, err
                /\ allObjectsList' = <<>>
                /\ listErr' = TRUE
                /\ pc' = "listBuilt"
                /\ walkTodo' = <<>>
                /\ UNCHANGED <<walkIdx, allInfo>>
           ELSE /\ allInfo' = st.info
                /\ walkTodo' = st.todo
                /\ UNCHANGED <<walkIdx, pc, allObjectsList, listErr>>
    /\ UNCHANGED <<envVars, cfg, exitCode, cause, reprocVars, objectsToStore,
                   hashVars, storeVars, diskVars>>

NextWalk == BuildFileListNextPath \/ WalkFn

\* there was no run before this one
NoRun == [objects |-> <<>>, wrote |-> FALSE]

\* a domain.BackupFailures that nothing was stored in yet
NoFailures == [Bucket |-> "", HasFailures |-> FALSE, FailedPaths |-> <<>>]

\* the state of a run before main has done anything, but for world,
\* failuresFile, cfg and pc
Fresh ==
    /\ exitCode = -1
    /\ cause = "running"
    /\ walkIdx = 0
    /\ walkTodo = <<>>
    /\ allInfo = <<>>
    /\ failures = NoFailures
    /\ fileData = <<>>
    /\ choice = 0
    /\ allObjectsList = <<>>
    /\ listErr = FALSE
    /\ objectsToStore = <<>>
    /\ hashCh = <<>>
    /\ hashW = [w \in Routines |-> NoHashRoutine]
    /\ hashCount = <<>>
    /\ storeCh = <<>>
    /\ storeW = [w \in Routines |-> NoStoreRoutine]
    /\ storeLog = <<>>
    /\ bucketCreated = FALSE
    /\ poi = {}
    /\ failedFilesDetails = NoFailures
    /\ manifestWrites = 0
    /\ lastRun = NoRun
    /\ sampleFileList = <<>>
    /\ filename = <<>>
    /\ key = <<>>
    /\ backoff = NoBackoff

NoFailuresFile == [kind |-> "missing"]

\* main has called buildFileList, for any filesystem, base paths and rules
InitWalk ==
    /\ world \in Worlds
    /\ fate = NoFate
    /\ failuresFile = NoFailuresFile
    /\ cfg \in { [BasePaths |-> b, Exclusions |-> r, Reprocess |-> FALSE] :
                    b \in BasePathLists, r \in RuleLists }
    /\ pc = "buildFileList"
    /\ Fresh

SpecWalk == InitWalk /\ [][NextWalk]_vars

(***************************************************************************)
(* The failures file: domain.BackupFailures as JSON.                       *)
(***************************************************************************)
\* json.Marshal of a domain.BackupFailures (FileInfo has no field tags)
Marshal(v) ==
    [kind |-> "json",
     bucket |-> v.Bucket,
     hasFailures |-> v.HasFailures,
     FailedPaths |-> v.FailedPaths]

\* a decoder that looks for the failed paths under another key
UnmarshalOtherKey(file) ==
    [Bucket |-> file.bucket, HasFailures |-> file.hasFailures, FailedPaths |-> <<>>]

\* json.Unmarshal into a domain.BackupFailures
Unmarshal(file) ==
    [Bucket |-> file.bucket,
     HasFailures |-> file.hasFailures,
     FailedPaths |-> file.FailedPaths]

\* a copy that leaves the hash behind
CopyWithoutHash(fi) ==
    [FullName |-> fi.FullName, Size |-> fi.Size, Excluded |-> fi.Excluded,
     Hash |-> "", HashSuccess |-> fi.HashSuccess,
     StorageSuccess |-> fi.StorageSuccess]

\* FileInfo.Copy
Copy(fi) ==
    [FullName |-> fi.FullName, Size |-> fi.Size, Excluded |-> fi.Excluded,
     Hash |-> fi.Hash, HashSuccess |-> fi.HashSuccess,
     StorageSuccess |-> fi.StorageSuccess]

BucketName == "backup-bucket"

(***************************************************************************)
(* main.go, up to the list of records.                                     *)
(***************************************************************************)
\* main.go:44: the list comes from the failures file or from the filesystem
MainBuildList ==
    /\ pc = "main"
    /\ \E reprocess \in Read("Reprocess", BOOLEAN) :
          /\ cfg' = Got("Reprocess", reprocess)
          /\ pc' = IF reprocess THEN "buildReprocessingList" ELSE "buildFileList"
    /\ UNCHANGED <<envVars, exitCode, cause, walkVars, reprocVars, listVars,
                   hashVars, storeVars, diskVars>>

\* buildReprocessingList returns (list, err)
ReturnList(list, err) ==
    /\ allObjectsList' = list
    /\ listErr' = err
    /\ pc' = "listBuilt"

\* walker.go buildReprocessingList, up to the menu: the file is read and parsed
BuildReprocessingListRead ==
    /\ pc = "buildReprocessingList"
    /\ IF failuresFile.kind # "json"
       THEN \* os.ReadFile or json.Unmarshal failed
            ReturnList(<<>>, TRUE) /\ UNCHANGED <<cfg, failures>>
       ELSE /\ failures' = Unmarshal(failuresFile)
            /\ IF ~failures'.HasFailures
               THEN ReturnList(<<>>, FALSE) /\ UNCHANGED cfg
               ELSE \E noConfirm \in Read("NoConfirm", BOOLEAN) :
                       /\ cfg' = Got("NoConfirm", noConfirm)
                       /\ pc' = IF noConfirm THEN "reprocessStat" ELSE "reprocessMenu"
                       /\ UNCHANGED <<allObjectsList, listErr>>
    /\ UNCHANGED <<envVars, exitCode, cause, walkVars, fileData, choice, objectsToStore,
                   hashVars, storeVars, diskVars>>

\* what fmt.Scanf may deliver: 0 stands for a failed scan, 4 for any other number
MenuInputs == 0..4

\* a menu that takes any number it does not know for "Reprocess now"
MenuChoiceDefaultProceeds(c) ==
    CASE c = 1 -> "list"
      [] c = 3 -> "cancel"
      [] OTHER -> "proceed"

\* walker.go:135-151: the branch of the switch for the number scanned
MenuChoice(c) ==
    CASE c = 1 -> "list"
      [] c = 2 -> "proceed"
      [] c = 3 -> "cancel"
      [] OTHER -> "default"

\* walker.go buildReprocessingList: one round of the confirmation menu
ReprocessMenu ==
    /\ pc = "reprocessMenu"
    /\ \E c \in MenuInputs :
          IF c = 0
          THEN \* fmt.Scanf returned an error: continue
               UNCHANGED <<pc, allObjectsList, listErr, choice>>
          ELSE /\ choice' = c
               /\ CASE MenuChoice(c) = "proceed" ->
                          pc' = "reprocessStat" /\ UNCHANGED <<allObjectsList, listErr>>
                    [] MenuChoice(c) = "cancel" -> ReturnList(<<>>, FALSE)
                    [] OTHER -> UNCHANGED <<pc, allObjectsList, listErr>>
    /\ UNCHANGED <<envVars, cfg, exitCode, cause, walkVars, failures, fileData,
                   objectsToStore, hashVars, storeVars, diskVars>>

\* a load that returns the records it had built when a stat fails
ListOnStatErrorPartial(list) == list

\* walker.go:167-169: what buildReprocessingList returns as its list when
\* os.Stat fails, list being the records built so far
ListOnStatError(list) == <<>>

\* walker.go buildReprocessingList: one round of the loop over FailedPaths
ReprocessStat ==
    /\ pc = "reprocessStat"
    /\ LET failedPaths == failures.FailedPaths
           i == Len(fileData) + 1
       IN  IF i > Len(failedPaths)
           THEN ReturnList(fileData, FALSE) /\ UNCHANGED fileData
           ELSE LET name == failedPaths[i].FullName
                IN  IF Exists(world, name) /\ name \notin world.bad
                    THEN /\ fileData' = Append(fileData,
                                               NewFileInfo(name, SizeOf(world, name), FALSE))
                         /\ UNCHANGED <<pc, allObjectsList, listErr>>
                    ELSE \* os.Stat failed
                         ReturnList(ListOnStatError(fileData), TRUE)
                         /\ UNCHANGED fileData
    /\ UNCHANGED <<envVars, cfg, exitCode, cause, walkVars, failures, choice,
                   objectsToStore, hashVars, storeVars, diskVars>>

\* a displayFileStats that keeps the excluded records
DisplayFileStatsOfAll(objectsList, i) ==
    [k \in 1..(Len(objectsList) - i + 1) |-> i + k - 1]

\* metrics.go displayFileStats: the records that are not excluded
RECURSIVE DisplayFileStats(_, _)
DisplayFileStats(objectsList, i) ==
    IF i > Len(objectsList) THEN <<>>
    ELSE IF objectsList[i].Excluded
         THEN DisplayFileStats(objectsList, i + 1)
         ELSE <<i>> \o DisplayFileStats(objectsList, i + 1)

\* a main that goes on with an empty list
NothingToReprocessNever(reprocess, objectsList) == FALSE

\* a main that stops a reprocessing run when there are records
NothingToReprocessNonEmpty(reprocess, objectsList) ==
    reprocess /\ Len(objectsList) > 0

\* main.go:50: a reprocessing run that found no record stops
NothingToReprocess(reprocess, objectsList) == reprocess /\ Len(objectsList) = 0

\* a main that hashes in a dry run too
SkipHashingNever(dryrun) == FALSE

\* main.go:66: the files are hashed unless the run is a dry run
SkipHashing(dryrun) == dryrun

\* main.go:48-66: the list is there; nothing to reprocess, a fatal error, or
\* the records to store are picked and the run goes on
MainListBuilt ==
    /\ pc = "listBuilt"
    /\ IF NothingToReprocess(cfg.Reprocess, allObjectsList)
       THEN /\ Exit(0, "nothing to reprocess")
            /\ UNCHANGED <<cfg, objectsToStore, hashCount, storeLog>>
       ELSE IF listErr
       THEN /\ Exit(1, "error when building file list")
            /\ UNCHANGED <<cfg, objectsToStore, hashCount, storeLog>>
       ELSE /\ objectsToStore' = DisplayFileStats(allObjectsList, 1)
            /\ hashCount' = [i \in 1..Len(allObjectsList) |-> 0]
            /\ storeLog' = [i \in 1..Len(allObjectsList) |-> <<>>]
            /\ \E dryrun \in Read("Dryrun", BOOLEAN) :
                  /\ cfg' = Got("Dryrun", dryrun)
                  /\ pc' = IF SkipHashing(dryrun) THEN "writeObjectsToAws"
                                                  ELSE "hashAllFiles"
            /\ UNCHANGED <<exitCode, cause>>
    /\ UNCHANGED <<envVars, walkVars, reprocVars, allObjectsList, listErr,
                   hashCh, hashW, storeCh, storeW, bucketCreated, poi, diskVars>>

(***************************************************************************)
(* The digest pool: hashAllFiles and hashFilesInChannel.                   *)
(***************************************************************************)
\* a hashAllFiles that starts one goroutine more than HashRoutinesCount
HashAllFilesOneMore ==
    /\ pc = "hashAllFiles"
    /\ hashCh' = objectsToStore
    /\ \E n \in Read("HashRoutinesCount", 0..MaxRoutines),
          max \in Read("MaxHashChannelErrorCount", 0..MaxChannelErrors) :
          hashW' = [w \in Routines |->
                       IF w <= n + 1
                       THEN [NoHashRoutine EXCEPT !.pc = "range", !.maxAllowedErrors = max]
                       ELSE NoHashRoutine]
    /\ pc' = "hashWait"
    /\ UNCHANGED <<envVars, cfg, exitCode, cause, walkVars, reprocVars, listVars,
                   hashCount, storeVars, diskVars>>

\* hashAllFiles, up to wg.Wait: the channel is loaded and closed and the
\* goroutines are started; each reads its budget into maxAllowedErrors
HashAllFiles ==
    /\ pc = "hashAllFiles"
    /\ hashCh' = objectsToStore
    /\ \E n \in Read("HashRoutinesCount", 0..MaxRoutines),
          max \in Read("MaxHashChannelErrorCount", 0..MaxChannelErrors) :
          hashW' = [w \in Routines |->
                       IF w <= n
                       THEN [NoHashRoutine EXCEPT !.pc = "range", !.maxAllowedErrors = max]
                       ELSE NoHashRoutine]
    /\ pc' = "hashWait"
    /\ UNCHANGED <<envVars, cfg, exitCode, cause, walkVars, reprocVars, listVars,
                   hashCount, storeVars, diskVars>>

\* a receive that leaves the record on the channel
HashRangePeek(w) ==
    /\ hashW[w].pc = "range"
    /\ IF hashCh = <<>>
       THEN hashW' = [hashW EXCEPT ![w].pc = "done"]
       ELSE hashW' = [hashW EXCEPT ![w].pc = "hashFile", ![w].fi = Head(hashCh)]
    /\ UNCHANGED <<envVars, cfg, pc, exitCode, cause, walkVars, reprocVars, listVars,
                   hashCh, hashCount, storeVars, diskVars>>

\* hashFilesInChannel: for fi := range ch
HashRange(w) ==
    /\ hashW[w].pc = "range"
    /\ IF hashCh = <<>>
       THEN \* the channel is closed and drained: the goroutine returns
            /\ hashW' = [hashW EXCEPT ![w].pc = "done"]
            /\ UNCHANGED hashCh
       ELSE /\ hashW' = [hashW EXCEPT ![w].pc = "hashFile", ![w].fi = Head(hashCh)]
            /\ hashCh' = Tail(hashCh)
    /\ UNCHANGED <<envVars, cfg, pc, exitCode, cause, walkVars, reprocVars, listVars,
                   hashCount, storeVars, diskVars>>

\* the content of a file, and hashFile's result for it
Content(name) == IF BaseName(name) = Na THEN "x" ELSE "y"
Md5Base64(content) == IF content = "x" THEN "md5(x)" ELSE "md5(y)"

\* a goroutine that stops when its count reaches the budget
ExceedsBudgetAtLimit(errCount, maxAllowedErrors) == errCount >= maxAllowedErrors

\* hashFilesInChannel: whether the goroutine leaves its loop after a file
ExceedsBudget(errCount, maxAllowedErrors) == errCount > maxAllowedErrors

\* hashFilesInChannel: the body of the loop, for a file that hashFile could
\* (ok) or could not hash
HashFile(w) ==
    /\ hashW[w].pc = "hashFile"
    /\ \E ok \in HashOutcomes(allObjectsList[hashW[w].fi].FullName) :
          LET fi == hashW[w].fi
              errCount == IF ok THEN hashW[w].errCount ELSE hashW[w].errCount + 1
          IN  /\ allObjectsList' =
                    IF ok
                    THEN [allObjectsList EXCEPT
                            ![fi].Hash = Md5Base64(Content(allObjectsList[fi].FullName)),
                            ![fi].HashSuccess = TRUE]
                    ELSE [allObjectsList EXCEPT ![fi].HashSuccess = FALSE]
              /\ hashCount' = [hashCount EXCEPT ![fi] = @ + 1]
              /\ hashW' = [hashW EXCEPT
                             ![w].errCount = errCount,
                             ![w].fi = 0,
                             ![w].pc = IF ExceedsBudget(errCount, hashW[w].maxAllowedErrors)
                                       THEN "done" ELSE "range"]
    /\ UNCHANGED <<envVars, cfg, pc, exitCode, cause, walkVars, reprocVars, listErr,
                   objectsToStore, hashCh, storeVars, diskVars>>

\* a hashAllFiles that returns without waiting for its goroutines
HashAllFilesNoWait ==
    /\ pc = "hashWait"
    /\ pc' = "displayBadHashes"
    /\ UNCHANGED <<envVars, cfg, exitCode, cause, walkVars, reprocVars, listVars,
                   hashVars, storeVars, diskVars>>

\* hashAllFiles: wg.Wait returns when every goroutine has returned
HashAllFilesWait ==
    /\ pc = "hashWait"
    /\ \A w \in Routines : hashW[w].pc \in {"none", "done"}
    /\ hashW' = [w \in Routines |-> NoHashRoutine]
    /\ pc' = "displayBadHashes"
    /\ UNCHANGED <<envVars, cfg, exitCode, cause, walkVars, reprocVars, listVars,
                   hashCh, hashCount, storeVars, diskVars>>

\* a count of the records on which hashFile failed, without those that no
\* goroutine has taken
FailedHashCountOfTaken(objectsList) ==
    Cardinality({ k \in 1..Len(objectsList) :
                    /\ ~allObjectsList[objectsList[k]].Excluded
                    /\ ~allObjectsList[objectsList[k]].HashSuccess
                    /\ hashCount[objectsList[k]] > 0 })

\* metrics.go displayBadHashes: the number of records that were not hashed
FailedHashCount(objectsList) ==
    Cardinality({ k \in 1..Len(objectsList) :
                    /\ ~allObjectsList[objectsList[k]].Excluded
                    /\ ~allObjectsList[objectsList[k]].HashSuccess })

\* a gate that lets a count equal to the maximum pass
DisplayBadHashesStrict(objectsList, maxAllowedHashFailures) ==
    FailedHashCount(objectsList) > maxAllowedHashFailures

\* metrics.go displayBadHashes
DisplayBadHashes(objectsList, maxAllowedHashFailures) ==
    FailedHashCount(objectsList) >= maxAllowedHashFailures

\* main.go:70-74: the run ends when too many records were not hashed
MainDisplayBadHashes ==
    /\ pc = "displayBadHashes"
    /\ \E max \in Read("MaxAllowedHashFailures", 0..MaxHashFailures) :
          /\ cfg' = Got("MaxAllowedHashFailures", max)
          /\ IF DisplayBadHashes(objectsToStore, max)
             THEN Exit(1, "hash calculation failures exceed allowable maximum")
             ELSE pc' = "writeObjectsToAws" /\ UNCHANGED <<exitCode, cause>>
    /\ UNCHANGED <<envVars, walkVars, reprocVars, listVars, hashVars, storeVars, diskVars>>

(***************************************************************************)
(* The transfer pool: writeObjectsToAws, writeAllObjectsToS3 and           *)
(* storeFilesInChannel.                                                    *)
(***************************************************************************)
dryrunSampleFileListLength == 25

\* what the store and the AWS configuration may do to writeObjectsToAws
AwsOutcomes ==
    { "config failed", "no LocationConstraint", "CreateBucket failed", "created",
      "ListBuckets failed", "no dryrun bucket", "listed" }

\* a writeObjectsToAws that goes on without a bucket
CreateBucketErrIgnored(outcome) == FALSE

\* writeObjectsToAws: the region has no LocationConstraint, or CreateBucket
\* returned an error
CreateBucketErr(outcome) == outcome # "created"

\* a handleDryrun that prints its sample before it looks at the listing
DryrunReportFirst(outcome, objectsList) ==
    [i \in 1..(IF Len(objectsList) < dryrunSampleFileListLength
               THEN Len(objectsList) ELSE dryrunSampleFileListLength) |->
        allObjectsList[objectsList[i]].FullName]

\* handleDryrun: the paths of the sample it prints; the report is printed at
\* the end only, after ListBuckets and the search for the dry-run bucket
DryrunReport(outcome, objectsList) ==
    IF outcome = "listed"
    THEN [i \in 1..dryrunSampleFileListLength |->
             allObjectsList[objectsList[i]].FullName]
    ELSE <<>>

\* writeObjectsToAws up to writeAllObjectsToS3, handleDryrun included, and
\* main.go:80-83 for the error it returns
WriteObjectsToAws ==
    /\ pc = "writeObjectsToAws"
    /\ \E outcome \in AwsOutcomes :
          IF outcome = "config failed"
          THEN Exit(1, "AWS config failed") /\ UNCHANGED <<bucketCreated, sampleFileList>>
          ELSE IF cfg.Dryrun
          THEN /\ outcome \in {"ListBuckets failed", "no dryrun bucket", "listed"}
               /\ IF outcome # "listed"
                  THEN /\ sampleFileList' = DryrunReport(outcome, objectsToStore)
                       /\ Exit(1, outcome)
                  ELSE IF Len(objectsToStore) < dryrunSampleFileListLength
                  THEN \* objectsList[i] with i out of range: the goroutine
                       \* panics before anything is printed
                       Exit(2, "panic: index out of range") /\ UNCHANGED sampleFileList
                  ELSE /\ sampleFileList' = DryrunReport(outcome, objectsToStore)
                       /\ Exit(0, "done")
               /\ UNCHANGED bucketCreated
          ELSE /\ outcome \in {"no LocationConstraint", "CreateBucket failed", "created"}
               /\ IF CreateBucketErr(outcome)
                  THEN Exit(1, outcome) /\ UNCHANGED bucketCreated
                  ELSE /\ bucketCreated' = (outcome = "created")
                       /\ pc' = "writeAllObjectsToS3"
                       /\ UNCHANGED <<exitCode, cause>>
               /\ UNCHANGED sampleFileList
    /\ UNCHANGED <<envVars, cfg, walkVars, reprocVars, listVars, hashVars,
                   storeCh, storeW, storeLog, poi, failuresFile, failedFilesDetails,
                   manifestWrites, lastRun>>

\* a channel that is loaded with every record, hashed or not
HashedOrNot(objectsList) == objectsList

\* writeAllObjectsToS3: the records that are put on the channel
RECURSIVE HashedOnly(_)
HashedOnly(objectsList) ==
    IF objectsList = <<>> THEN <<>>
    ELSE IF ~allObjectsList[Head(objectsList)].HashSuccess
         THEN HashedOnly(Tail(objectsList))
         ELSE <<Head(objectsList)>> \o HashedOnly(Tail(objectsList))

\* writeAllObjectsToS3, up to wg.Wait
WriteAllObjectsToS3 ==
    /\ pc = "writeAllObjectsToS3"
    /\ storeCh' = HashedOnly(objectsToStore)
    /\ \E n \in Read("StorageRoutinesCount", 0..MaxRoutines),
          max \in Read("MaxStorageChannelErrorCount", 0..MaxChannelErrors),
          retry \in Read("StorageRetryCount", 0..MaxRetryCount) :
          /\ cfg' = [StorageRoutinesCount |-> n, MaxStorageChannelErrorCount |-> max,
                     StorageRetryCount |-> retry] @@ cfg
          /\ storeW' = [w \in Routines |->
                           IF w <= n THEN [NoStoreRoutine EXCEPT !.pc = "range"]
                                     ELSE NoStoreRoutine]
    /\ pc' = "storeWait"
    /\ UNCHANGED <<envVars, exitCode, cause, walkVars, reprocVars, listVars, hashVars,
                   storeLog, bucketCreated, poi, diskVars>>

\* a goroutine that leaves its loop on its budget without wg.Done
AfterFileNoDone(r, errCount) ==
    [r EXCEPT !.errCount = errCount,
              !.fi = 0,
              !.storageErrorCount = 0,
              !.pc = IF ExceedsBudget(errCount, cfg.MaxStorageChannelErrorCount)
                     THEN "left" ELSE "range"]

\* a goroutine that forgets the error it has just counted
AfterFileCountLost(r, errCount) ==
    [r EXCEPT !.fi = 0,
              !.storageErrorCount = 0,
              !.pc = IF ExceedsBudget(errCount, cfg.MaxStorageChannelErrorCount)
                     THEN "done" ELSE "range"]

\* storeFilesInChannel: the goroutine's state after a file is dealt with
AfterFile(r, errCount) ==
    [r EXCEPT !.errCount = errCount,
              !.fi = 0,
              !.storageErrorCount = 0,
              !.pc = IF ExceedsBudget(errCount, cfg.MaxStorageChannelErrorCount)
                     THEN "done" ELSE "range"]

\* storeFilesInChannel: for fi := range ch, and os.Open of the file
StoreRange(w) ==
    /\ storeW[w].pc = "range"
    /\ IF storeCh = <<>>
       THEN /\ storeW' = [storeW EXCEPT ![w].pc = "done"]
            /\ UNCHANGED <<storeCh, storeLog, allObjectsList>>
       ELSE LET fi == Head(storeCh)
            IN  /\ storeCh' = Tail(storeCh)
                /\ \E opened \in OpenOutcomes(allObjectsList[fi].FullName) :
                      /\ storeLog' = [storeLog EXCEPT
                                        ![fi] = Append(@, [op |-> "open", ok |-> opened])]
                      /\ IF opened
                         THEN /\ storeW' = [storeW EXCEPT ![w].pc = "put", ![w].fi = fi,
                                                          ![w].storageErrorCount = 0]
                              /\ UNCHANGED allObjectsList
                         ELSE /\ storeW' = [storeW EXCEPT
                                              ![w] = AfterFile(@, storeW[w].errCount + 1)]
                              /\ allObjectsList' =
                                    [allObjectsList EXCEPT ![fi].StorageSuccess = FALSE]
    /\ UNCHANGED <<envVars, cfg, pc, exitCode, cause, walkVars, reprocVars, listErr,
                   objectsToStore, hashVars, bucketCreated, poi, diskVars>>

\* decimal numerals, least significant digit first
RECURSIVE DoubleDigits(_, _)
DoubleDigits(ds, carry) ==
    IF ds = <<>> THEN (IF carry = 0 THEN <<>> ELSE <<carry>>)
    ELSE LET v == 2 * Head(ds) + carry
         IN  <<v % 10>> \o DoubleDigits(Tail(ds), v \div 10)

RECURSIVE PowerOfTwoDigits(_)
PowerOfTwoDigits(n) ==
    IF n = 0 THEN <<1>> ELSE DoubleDigits(PowerOfTwoDigits(n - 1), 0)

RECURSIVE Reverse(_)
Reverse(seq) == IF seq = <<>> THEN <<>> ELSE Append(Reverse(Tail(seq)), Head(seq))

\* fmt.Sprintf("%1.fs", math.Pow(2, float64(n))) without its unit: the
\* digits of 2^n, most significant first (a power of two is exact in float64)
ExponentialRetryDelayString(n) == Reverse(PowerOfTwoDigits(n))

RECURSIVE DigitsLessOrEqual(_, _)
DigitsLessOrEqual(a, b) ==
    IF Len(a) # Len(b) THEN Len(a) < Len(b)
    ELSE IF a = <<>> THEN TRUE
    ELSE IF Head(a) # Head(b) THEN Head(a) < Head(b)
    ELSE DigitsLessOrEqual(Tail(a), Tail(b))

\* time.ParseDuration of "<digits>s" succeeds when the seconds are at most
\* (1<<63) / 1e9 = 9223372036: beyond that it reports an overflow
ParseDurationOk(digits) ==
    DigitsLessOrEqual(digits, <<9, 2, 2, 3, 3, 7, 2, 0, 3, 6>>)

\* a retry count of 0 or less that allows a second attempt
AllowedStorageAttemptsTwo(retryCount) == IF retryCount <= 0 THEN 2 ELSE retryCount

\* storeFilesInChannel: allowedStorageAttempts
AllowedStorageAttempts(retryCount) == IF retryCount <= 0 THEN 1 ELSE retryCount

\* a retry loop that is left only by a put that succeeds
GivesUpNever(storageErrorCount, allowedStorageAttempts) == FALSE

\* storeFilesInChannel: whether the retry loop is left after a failed put
GivesUp(storageErrorCount, allowedStorageAttempts) ==
    storageErrorCount >= allowedStorageAttempts

\* storeFilesInChannel: what is slept after the n-th failed put of a file
Backoff(n) ==
    LET delay == ExponentialRetryDelayString(n)
    IN  IF ParseDurationOk(delay)
        THEN << [op |-> "sleep", seconds |-> delay] >>
        ELSE <<>>

\* strings.Replace(str, old, new, 1) for one-character old and new
ReplaceFirst(str, old, new) ==
    [i \in 1..Len(str) |->
        IF str[i] = old /\ \A j \in 1..(i - 1) : str[j] # old THEN new ELSE str[i]]

\* strings.ReplaceAll(str, old, new) for one-character old and new
ReplaceAll(str, old, new) ==
    [i \in 1..Len(str) |-> IF str[i] = old THEN new ELSE str[i]]

\* aws.go toKey
ToKey(name) == ReplaceAll(name, "\\", "/")

\* an input for PutObject without the hash of the file
PutObjectInputNoMD5(fi) ==
    [fi |-> fi, Bucket |-> BucketName,
     Key |-> ToKey(PathString(allObjectsList[fi].FullName)), ContentMD5 |-> ""]

\* storeFilesInChannel: the s3.PutObjectInput for record fi, whose Body is the
\* opened file of the record
PutObjectInput(fi) ==
    [fi |-> fi, Bucket |-> BucketName,
     Key |-> ToKey(PathString(allObjectsList[fi].FullName)),
     ContentMD5 |-> allObjectsList[fi].Hash]

\* storeFilesInChannel: one round of the retry loop (PutObject and, after a
\* failure that leaves attempts, the sleep), and what follows the loop
StorePut(w) ==
    /\ storeW[w].pc = "put"
    /\ \E stored \in PutOutcomes(allObjectsList[storeW[w].fi].FullName,
                                 storeW[w].storageErrorCount + 1) :
          LET fi == storeW[w].fi
              put == [op |-> "put", ok |-> stored]
              storageErrorCount == storeW[w].storageErrorCount + 1
          IN  IF stored
              THEN /\ storeLog' = [storeLog EXCEPT ![fi] = Append(@, put)]
                   /\ allObjectsList' = [allObjectsList EXCEPT ![fi].StorageSuccess = TRUE]
                   /\ storeW' = [storeW EXCEPT ![w] = AfterFile(@, storeW[w].errCount)]
              ELSE IF GivesUp(storageErrorCount,
                              AllowedStorageAttempts(cfg.StorageRetryCount))
              THEN /\ storeLog' = [storeLog EXCEPT ![fi] = Append(@, put)]
                   /\ allObjectsList' = [allObjectsList EXCEPT ![fi].StorageSuccess = FALSE]
                   /\ storeW' = [storeW EXCEPT ![w] = AfterFile(@, storeW[w].errCount + 1)]
              ELSE /\ storeLog' = [storeLog EXCEPT
                                     ![fi] = Append(@, put) \o Backoff(storageErrorCount)]
                   /\ storeW' = [storeW EXCEPT ![w].storageErrorCount = storageErrorCount]
                   /\ UNCHANGED allObjectsList
    /\ poi' = poi \cup {PutObjectInput(storeW[w].fi)}
    /\ UNCHANGED <<envVars, cfg, pc, exitCode, cause, walkVars, reprocVars, listErr,
                   objectsToStore, hashVars, storeCh, bucketCreated, diskVars>>

\* writeAllObjectsToS3: wg.Wait returns when every goroutine has returned,
\* and writeObjectsToAws returns nil
WriteAllObjectsToS3Wait ==
    /\ pc = "storeWait"
    /\ \A w \in Routines : storeW[w].pc \in {"none", "done"}
    /\ storeW' = [w \in Routines |-> NoStoreRoutine]
    /\ pc' = "displayStorageStats"
    /\ UNCHANGED <<envVars, cfg, exitCode, cause, walkVars, reprocVars, listVars, hashVars,
                   storeCh, storeLog, bucketCreated, poi, diskVars>>

(***************************************************************************)
(* The failure manifest.                                                   *)
(***************************************************************************)
\* a manifest loop that does not skip the excluded records
RECURSIVE StorageFailuresOfAll(_, _)
StorageFailuresOfAll(objectsList, i) ==
    IF i > Len(objectsList) THEN <<>>
    ELSE IF objectsList[i].StorageSuccess
         THEN StorageFailuresOfAll(objectsList, i + 1)
         ELSE <<Copy(objectsList[i])>> \o StorageFailuresOfAll(objectsList, i + 1)

\* a manifest loop that lists the transferred records too
RECURSIVE StorageFailuresAndSuccesses(_, _)
StorageFailuresAndSuccesses(objectsList, i) ==
    IF i > Len(objectsList) THEN <<>>
    ELSE IF objectsList[i].Excluded
         THEN StorageFailuresAndSuccesses(objectsList, i + 1)
         ELSE <<Copy(objectsList[i])>> \o StorageFailuresAndSuccesses(objectsList, i + 1)

\* metrics.go displayStorageStats: the loop over the records, from record i on
RECURSIVE StorageFailures(_, _)
StorageFailures(objectsList, i) ==
    IF i > Len(objectsList) THEN <<>>
    ELSE IF objectsList[i].Excluded
         THEN StorageFailures(objectsList, i + 1)
         ELSE IF objectsList[i].StorageSuccess
              THEN StorageFailures(objectsList, i + 1)
              ELSE <<Copy(objectsList[i])>> \o StorageFailures(objectsList, i + 1)

\* metrics.go displayStorageStats
DisplayStorageStats(objectsList) ==
    LET failed == StorageFailures(objectsList, 1)
    IN  [Bucket |-> BucketName, HasFailures |-> failed # <<>>, FailedPaths |-> failed]

\* writeFailureFile: the file holds the manifest as JSON
WriteFailureFile(failedFilesDetails_) == Marshal(failedFilesDetails_)

\* main.go:85-103: the manifest is built and written, and main returns
MainWriteFailures ==
    /\ pc = "displayStorageStats"
    /\ failedFilesDetails' = DisplayStorageStats(allObjectsList)
    /\ \E written \in BOOLEAN :
          IF written
          THEN /\ failuresFile' = WriteFailureFile(failedFilesDetails')
               /\ manifestWrites' = manifestWrites + 1
          ELSE /\ failuresFile' \in {failuresFile, [kind |-> "garbage"]}
               /\ UNCHANGED manifestWrites
    /\ Exit(0, "done")
    /\ UNCHANGED <<envVars, cfg, walkVars, reprocVars, listVars, hashVars, storeVars,
                   lastRun, sampleFileList>>

(***************************************************************************)
(* A run of the program.                                                   *)
(***************************************************************************)
Next ==
    \/ MainBuildList
    \/ BuildFileListNextPath
    \/ WalkFn
    \/ BuildReprocessingListRead
    \/ ReprocessMenu
    \/ ReprocessStat
    \/ MainListBuilt
    \/ HashAllFiles
    \/ \E w \in Routines : HashRange(w)
    \/ \E w \in Routines : HashFile(w)
    \/ HashAllFilesWait
    \/ MainDisplayBadHashes
    \/ WriteObjectsToAws
    \/ WriteAllObjectsToS3
    \/ \E w \in Routines : StoreRange(w)
    \/ \E w \in Routines : StorePut(w)
    \/ WriteAllObjectsToS3Wait
    \/ MainWriteFailures

\* the filesystems of a full run: a tree of four files, a single file, and
\* two files of which one cannot be read
TreeWorld ==
    [dirs |-> {<<Nd>>, <<Nd, Ng>>, <<Nd, Ns>>},
     files |-> {<<Nd, Ng, Nc>>, <<Nd, Na>>, <<Nd, Ns, Nb>>, <<Nd, Ns, Nc>>},
     bad |-> {}]
FileWorld == [dirs |-> {<<Nd>>}, files |-> {<<Nd, Na>>}, bad |-> {}]
BadWorld ==
    [dirs |-> {<<Nd>>, <<Nd, Ns>>},
     files |-> {<<Nd, Na>>, <<Nd, Ns, Nb>>},
     bad |-> {<<Nd, Ns, Nb>>}]

\* one directory with thirty files, five of them with a name that ends in a
ManyFilesWorld ==
    [dirs |-> {<<Nd>>},
     files |-> { <<Nd, <<x, y>>>> : x \in {"a", "b", "c", "d", "s"},
                                   y \in {"a", "b", "c", "d", "g", "s"} },
     bad |-> {}]

\* the base paths of a full run: the single file is walked once or twice,
\* and the entry that cannot be read is met in the only walk, in the first
\* of two or in the second of two
RunBasePaths(w) ==
    IF w = FileWorld THEN { << <<Nd>> >>, << <<Nd>>, <<Nd>> >> }
    ELSE IF w = BadWorld
         THEN { << <<Nd>> >>, << <<Nd>>, <<Nd, Na>> >>, << <<Nd, Na>>, <<Nd>> >> }
         ELSE { << <<Nd>> >> }

\* the rules of a full run: none, or the file a is excluded
RunRuleLists ==
    { <<>>, << [Id |-> 1, Regex |-> [lit |-> <<"a">>, anchored |-> TRUE]] >> }

\* a failed record as a failures file lists it
Failed(name) == [NewFileInfo(name, 1, FALSE) EXCEPT !.Hash = Md5Base64(Content(name)),
                                                     !.HashSuccess = TRUE]

\* the failures files a reprocessing run may find
FailuresFiles ==
    { NoFailuresFile,
      [kind |-> "garbage"],
      Marshal([Bucket |-> BucketName, HasFailures |-> FALSE, FailedPaths |-> <<>>]),
      Marshal([Bucket |-> BucketName, HasFailures |-> FALSE,
               FailedPaths |-> << Failed(<<Nd, Na>>) >>]),
      Marshal([Bucket |-> BucketName, HasFailures |-> TRUE,
               FailedPaths |-> << Failed(<<Nd, Na>>) >>]),
      Marshal([Bucket |-> BucketName, HasFailures |-> TRUE,
               FailedPaths |-> << Failed(<<Nd, Ns, Nb>>), Failed(<<Nd, Na>>) >>]) }

\* a backup of the filesystem, a reprocessing of a failures file, or a dry
\* run over a directory with more files than the sample holds
Init ==
    /\ \/ /\ world \in {TreeWorld, FileWorld, BadWorld}
          /\ failuresFile = NoFailuresFile
          /\ cfg \in { [BasePaths |-> b, Exclusions |-> r, Reprocess |-> FALSE] :
                          b \in RunBasePaths(world), r \in RunRuleLists }
       \/ /\ world \in {TreeWorld, BadWorld}
          /\ failuresFile \in FailuresFiles
          /\ cfg = [BasePaths |-> << <<Nd>> >>, Exclusions |-> <<>>, Reprocess |-> TRUE]
       \/ /\ world = BadWorld
          /\ failuresFile = Marshal([Bucket |-> BucketName, HasFailures |-> TRUE,
                                     FailedPaths |-> << Failed(<<Nd, Na>>),
                                                        Failed(<<Nd, Ns, Nb>>) >>])
          /\ cfg = [BasePaths |-> << <<Nd>> >>, Exclusions |-> <<>>, Reprocess |-> TRUE]
       \/ /\ world = ManyFilesWorld
          /\ failuresFile = NoFailuresFile
          /\ cfg \in { [BasePaths |-> << <<Nd>> >>, Exclusions |-> r,
                         Reprocess |-> FALSE, Dryrun |-> TRUE] : r \in RunRuleLists }
    /\ fate = NoFate
    /\ pc = "main"
    /\ Fresh

Spec == Init /\ [][Next]_vars

(***************************************************************************)
(* The pools against a filesystem and a store whose behaviour is fixed     *)
(* per file.                                                               *)
(***************************************************************************)
\* two readable files
TwoFileWorld ==
    [dirs |-> {<<Nd>>, <<Nd, Ns>>},
     files |-> {<<Nd, Na>>, <<Nd, Ns, Nb>>},
     bad |-> {}]

\* a file that works, one that cannot be hashed, one that cannot be opened
\* for the transfer, one whose first put fails, one whose puts all fail
Fates ==
    { [hash |-> TRUE, open |-> TRUE, putFailures |-> 0],
      [hash |-> FALSE, open |-> TRUE, putFailures |-> 0],
      [hash |-> TRUE, open |-> FALSE, putFailures |-> 0],
      [hash |-> TRUE, open |-> TRUE, putFailures |-> 1],
      [hash |-> TRUE, open |-> TRUE, putFailures |-> MaxRetryCount + 1] }

\* three readable files
ThreeFileWorld ==
    [dirs |-> {<<Nd>>, <<Nd, Ns>>},
     files |-> {<<Nd, Na>>, <<Nd, Ns, Nb>>, <<Nd, Ns, Nc>>},
     bad |-> {}]

InitPools ==
    /\ world = ThreeFileWorld
    /\ fate \in [world.files -> Fates]
    /\ failuresFile = NoFailuresFile
    /\ cfg = [BasePaths |-> << <<Nd>> >>, Exclusions |-> <<>>, Reprocess |-> FALSE,
              Dryrun |-> FALSE]
    /\ pc = "main"
    /\ Fresh

NextPools ==
    \/ MainBuildList
    \/ BuildFileListNextPath
    \/ WalkFn
    \/ MainListBuilt
    \/ HashAllFiles
    \/ \E w \in Routines : HashRange(w)
    \/ \E w \in Routines : HashFile(w)
    \/ HashAllFilesWait
    \/ MainDisplayBadHashes
    \/ WriteObjectsToAws
    \/ WriteAllObjectsToS3
    \/ \E w \in Routines : StoreRange(w)
    \/ \E w \in Routines : StorePut(w)
    \/ WriteAllObjectsToS3Wait
    \/ MainWriteFailures

SpecPools == InitPools /\ [][NextPools]_vars

\* backup runs over two files when the Go scheduler lets every runnable
\* goroutine run: main and the goroutines of a pool block only in wg.Wait
\* and in sleeps
InitFair ==
    /\ world = TwoFileWorld
    /\ fate \in [world.files -> Fates]
    /\ failuresFile = NoFailuresFile
    /\ cfg = [BasePaths |-> << <<Nd>> >>, Exclusions |-> <<>>, Reprocess |-> FALSE,
              Dryrun |-> FALSE]
    /\ pc = "main"
    /\ Fresh

SpecFair == InitFair /\ [][NextPools]_vars /\ WF_vars(NextPools)

(***************************************************************************)
(* Backup runs over three files with the sizes of the two pools configured *)
(* before the run.                                                         *)
(***************************************************************************)
InitSized ==
    /\ world = ThreeFileWorld
    /\ fate = NoFate
    /\ failuresFile = NoFailuresFile
    /\ \E h \in 0..MaxRoutines, s \in 0..MaxRoutines :
          cfg = [BasePaths |-> << <<Nd>> >>, Exclusions |-> <<>>, Reprocess |-> FALSE,
                 Dryrun |-> FALSE, HashRoutinesCount |-> h,
                 MaxHashChannelErrorCount |-> MaxChannelErrors,
                 MaxAllowedHashFailures |-> MaxHashFailures,
                 StorageRoutinesCount |-> s,
                 MaxStorageChannelErrorCount |-> MaxChannelErrors,
                 StorageRetryCount |-> 1]
    /\ pc = "main"
    /\ Fresh

SpecSized == InitSized /\ [][NextPools]_vars

(***************************************************************************)
(* Backup runs over two files with a StorageRetryCount of 0 or less.       *)
(***************************************************************************)
InitAttempts ==
    /\ world = TwoFileWorld
    /\ fate = NoFate
    /\ failuresFile = NoFailuresFile
    /\ \E retry \in -1..0 :
          cfg = [BasePaths |-> << <<Nd>> >>, Exclusions |-> <<>>, Reprocess |-> FALSE,
                 Dryrun |-> FALSE, StorageRetryCount |-> retry]
    /\ pc = "main"
    /\ Fresh

SpecAttempts == InitAttempts /\ [][NextPools]_vars

(***************************************************************************)
(* One transfer goroutine against a store that fails the first puts of a   *)
(* file, for long retry loops.                                             *)
(***************************************************************************)
LongRetryCount == 36

InitRetry ==
    /\ world = TwoFileWorld
    /\ \E k \in 0..LongRetryCount :
          fate = [name \in world.files |->
                     [hash |-> TRUE, open |-> TRUE,
                      putFailures |-> IF name = <<Nd, Na>> THEN k ELSE 0]]
    /\ failuresFile = NoFailuresFile
    /\ \E retry \in 0..LongRetryCount, max \in 0..MaxChannelErrors :
          cfg = [BasePaths |-> << <<Nd>> >>, Exclusions |-> <<>>, Reprocess |-> FALSE,
                 Dryrun |-> FALSE, HashRoutinesCount |-> 1,
                 MaxHashChannelErrorCount |-> 0, MaxAllowedHashFailures |-> 1,
                 StorageRoutinesCount |-> 1, MaxStorageChannelErrorCount |-> max,
                 StorageRetryCount |-> retry]
    /\ pc = "main"
    /\ Fresh

SpecRetry == InitRetry /\ [][NextPools]_vars

(***************************************************************************)
(* A backup followed by a reprocessing of the failures file it left.       *)
(***************************************************************************)
\* the program is started again, to reprocess
RunAgain ==
    /\ pc = "exited"
    /\ ~cfg.Reprocess
    /\ lastRun' = [objects |-> allObjectsList, wrote |-> manifestWrites > 0]
    /\ cfg' = [BasePaths |-> cfg.BasePaths, Exclusions |-> cfg.Exclusions,
               Reprocess |-> TRUE, HashRoutinesCount |-> 1, StorageRoutinesCount |-> 1]
    /\ pc' = "main"
    /\ exitCode' = -1
    /\ cause' = "running"
    /\ walkIdx' = 0
    /\ walkTodo' = <<>>
    /\ allInfo' = <<>>
    /\ failures' = NoFailures
    /\ fileData' = <<>>
    /\ choice' = 0
    /\ allObjectsList' = <<>>
    /\ listErr' = FALSE
    /\ objectsToStore' = <<>>
    /\ hashCh' = <<>>
    /\ hashCount' = <<>>
    /\ storeCh' = <<>>
    /\ storeLog' = <<>>
    /\ bucketCreated' = FALSE
    /\ poi' = {}
    /\ failedFilesDetails' = NoFailures
    /\ manifestWrites' = 0
    /\ sampleFileList' = <<>>
    /\ UNCHANGED <<envVars, failuresFile, hashW, storeW>>

InitRoundTrip ==
    /\ world = TreeWorld
    /\ fate = NoFate
    /\ failuresFile = NoFailuresFile
    /\ cfg \in { [BasePaths |-> << <<Nd>> >>, Exclusions |-> r, Reprocess |-> FALSE,
                  Dryrun |-> FALSE, HashRoutinesCount |-> 1, StorageRoutinesCount |-> 1] :
                    r \in RunRuleLists }
    /\ pc = "main"
    /\ Fresh

NextRoundTrip == Next \/ RunAgain

SpecRoundTrip == InitRoundTrip /\ [][NextRoundTrip]_vars

(***************************************************************************)
(* A backup followed by any number of reprocessing runs, each of the       *)
(* failures file that is on disk when it starts.                           *)
(***************************************************************************)
\* history: the paths that earlier runs have transferred
StoredBefore == IF "stored" \in DOMAIN lastRun THEN lastRun.stored ELSE {}

\* the paths that this run has transferred
StoredNow ==
    { allObjectsList[i].FullName :
        i \in { k \in 1..Len(allObjectsList) : allObjectsList[k].StorageSuccess } }

\* the program is started again to reprocess, after a backup or a reprocessing
ReprocessAgain ==
    /\ pc = "exited"
    /\ lastRun' = [objects |-> allObjectsList, wrote |-> manifestWrites > 0,
                   stored |-> StoredBefore \cup StoredNow]
    /\ cfg' = [BasePaths |-> cfg.BasePaths, Exclusions |-> cfg.Exclusions,
               Reprocess |-> TRUE, Dryrun |-> FALSE,
               HashRoutinesCount |-> 1, StorageRoutinesCount |-> 1,
               MaxHashChannelErrorCount |-> 1, MaxAllowedHashFailures |-> 1,
               MaxStorageChannelErrorCount |-> 1, StorageRetryCount |-> 1]
    /\ pc' = "main"
    /\ exitCode' = -1
    /\ cause' = "running"
    /\ walkIdx' = 0
    /\ walkTodo' = <<>>
    /\ allInfo' = <<>>
    /\ failures' = NoFailures
    /\ fileData' = <<>>
    /\ choice' = 0
    /\ allObjectsList' = <<>>
    /\ listErr' = FALSE
    /\ objectsToStore' = <<>>
    /\ hashCh' = <<>>
    /\ hashCount' = <<>>
    /\ storeCh' = <<>>
    /\ storeLog' = <<>>
    /\ bucketCreated' = FALSE
    /\ poi' = {}
    /\ failedFilesDetails' = NoFailures
    /\ manifestWrites' = 0
    /\ sampleFileList' = <<>>
    /\ UNCHANGED <<envVars, failuresFile, hashW, storeW>>

\* a backup of two files, or of one file that two base paths name
InitReprocess ==
    /\ \E b \in { << <<Nd>> >>, << <<Nd>>, <<Nd>> >> } :
          /\ world = IF Len(b) = 1 THEN TwoFileWorld ELSE FileWorld
          /\ cfg = [BasePaths |-> b, Exclusions |-> <<>>,
                    Reprocess |-> FALSE, Dryrun |-> FALSE,
                    HashRoutinesCount |-> 1, StorageRoutinesCount |-> 1,
                    MaxHashChannelErrorCount |-> 1, MaxAllowedHashFailures |-> 1,
                    MaxStorageChannelErrorCount |-> 1, StorageRetryCount |-> 1]
    /\ fate = NoFate
    /\ failuresFile = NoFailuresFile
    /\ pc = "main"
    /\ Fresh

NextReprocess == Next \/ ReprocessAgain

SpecReprocess == InitReprocess /\ [][NextReprocess]_vars

(***************************************************************************)
(* toKey on its own, for every file name of a few characters.              *)
(***************************************************************************)
MaxNameLen == 4

\* the characters of a file name: the separators, a drive's colon, a letter
NameChars == {"\\", "/", ":", "a"}

RECURSIVE StringsUpTo(_)
StringsUpTo(n) ==
    IF n = 0 THEN {<<>>}
    ELSE LET shorter == StringsUpTo(n - 1)
         IN  shorter \cup { Append(str, c) : str \in shorter, c \in NameChars }

\* toKey is called with some file name
ToKeyCall ==
    /\ pc = "toKey"
    /\ \E name \in StringsUpTo(MaxNameLen) :
          /\ filename' = name
          /\ key' = ToKey(name)
    /\ UNCHANGED <<world, fate, backoff, cfg, pc, exitCode, cause, walkVars, reprocVars,
                   listVars, hashVars, storeVars, diskVars>>

InitKey ==
    /\ world = FileWorld
    /\ fate = NoFate
    /\ failuresFile = NoFailuresFile
    /\ cfg = [BasePaths |-> <<>>, Exclusions |-> <<>>, Reprocess |-> FALSE]
    /\ pc = "toKey"
    /\ Fresh

SpecKey == InitKey /\ [][ToKeyCall]_vars

(***************************************************************************)
(* calcBackoff on its own, for the exponents around its limits.            *)
(***************************************************************************)
highestReasonableExponentThatWontOverflowInt32 == 46340
MaxExponent == 66

\* the exponents calcBackoff is called with
Exponents ==
    (-1..MaxExponent) \cup {highestReasonableExponentThatWontOverflowInt32,
                            highestReasonableExponentThatWontOverflowInt32 + 1}

\* the bits of Go's int: 64 on a 64-bit build, 32 on a 32-bit build
IntSizes == {32, 64}

\* an int in two's complement, the least significant bit first
IntOne(size) == [k \in 1..size |-> IF k = 1 THEN 1 ELSE 0]

\* total *= 2: the highest bit is lost
TimesTwo(total) == <<0>> \o SubSeq(total, 1, Len(total) - 1)

RECURSIVE PlusOne(_)
PlusOne(bits) ==
    IF bits = <<>> THEN <<>>
    ELSE IF Head(bits) = 0 THEN <<1>> \o Tail(bits)
    ELSE <<0>> \o PlusOne(Tail(bits))

\* the two's complement of an int
Negate(bits) == PlusOne([k \in 1..Len(bits) |-> 1 - bits[k]])

\* the decimal digits of the bits k..1 read as an unsigned number, least
\* significant digit first, given the digits of the bits above k
RECURSIVE UnsignedDigitsFrom(_, _, _)
UnsignedDigitsFrom(bits, k, above) ==
    IF k = 0 THEN above
    ELSE LET digits == DoubleDigits(above, bits[k])
         IN  IF digits = <<>> THEN UnsignedDigitsFrom(bits, k - 1, <<>>)
             ELSE UnsignedDigitsFrom(bits, k - 1, digits)

UnsignedDigits(bits) == UnsignedDigitsFrom(bits, Len(bits), <<>>)

\* fmt.Sprintf("%ds", total) without its unit: the sign and the digits
SprintfD(total) ==
    LET neg == total[Len(total)] = 1
        digits == UnsignedDigits(IF neg THEN Negate(total) ELSE total)
    IN  [neg |-> neg, digits |-> IF digits = <<>> THEN <<0>> ELSE Reverse(digits)]

\* time.ParseDuration of "<sign><digits>s": the Duration in nanoseconds, or
\* an error when the seconds are beyond the largest Duration
ParseDuration(str) ==
    IF ParseDurationOk(str.digits)
    THEN [duration |-> [neg |-> str.neg,
                        ns |-> IF str.digits = <<0>> THEN <<0>>
                               ELSE str.digits \o <<0, 0, 0, 0, 0, 0, 0, 0, 0>>],
          err |-> FALSE]
    ELSE [duration |-> [neg |-> FALSE, ns |-> <<0>>], err |-> TRUE]

BackoffUnchanged ==
    UNCHANGED <<world, fate, filename, key, cfg, pc, exitCode, cause, walkVars, reprocVars,
                listVars, hashVars, storeVars, diskVars>>

\* calcBackoff is called with some exponent: the guard, and the return of
\* Duration 1 for exponent 0
CalcBackoffCall ==
    /\ pc = "calcBackoff"
    /\ backoff.pc = "call"
    /\ \E exponent \in Exponents, size \in IntSizes :
          backoff' =
              IF exponent < 0 \/ exponent > highestReasonableExponentThatWontOverflowInt32
              THEN [backoff EXCEPT !.exponent = exponent, !.err = TRUE, !.pc = "returned"]
              ELSE IF exponent = 0
              THEN [backoff EXCEPT !.exponent = exponent, !.pc = "returned",
                                   !.duration = [neg |-> FALSE, ns |-> <<1>>]]
              ELSE [backoff EXCEPT !.exponent = exponent, !.total = IntOne(size),
                                   !.i = 1, !.pc = "loop"]
    /\ BackoffUnchanged

\* for i := 1; i <= exponent; i++ { total *= 2 }
CalcBackoffLoop ==
    /\ pc = "calcBackoff"
    /\ backoff.pc = "loop"
    /\ backoff.i <= backoff.exponent
    /\ backoff' = [backoff EXCEPT !.total = TimesTwo(@), !.i = @ + 1]
    /\ BackoffUnchanged

\* return time.ParseDuration(fmt.Sprintf("%ds", total))
CalcBackoffReturn ==
    /\ pc = "calcBackoff"
    /\ backoff.pc = "loop"
    /\ backoff.i > backoff.exponent
    /\ LET parsed == ParseDuration(SprintfD(backoff.total))
       IN  backoff' = [backoff EXCEPT !.duration = parsed.duration, !.err = parsed.err,
                                      !.pc = "returned"]
    /\ BackoffUnchanged

InitBackoff ==
    /\ world = FileWorld
    /\ fate = NoFate
    /\ failuresFile = NoFailuresFile
    /\ cfg = [BasePaths |-> <<>>, Exclusions |-> <<>>, Reprocess |-> FALSE]
    /\ pc = "calcBackoff"
    /\ Fresh

NextBackoff ==
    \/ CalcBackoffCall
    \/ CalcBackoffLoop
    \/ CalcBackoffReturn

SpecBackoff == InitBackoff /\ [][NextBackoff]_vars

(***************************************************************************)
(* Properties of the traversal.                                            *)
(***************************************************************************)
Records(list) == { list[i] : i \in 1..Len(list) }
ListBuilt == pc = "listBuilt" /\ ~listErr
IsDotDir(w, p) == IsDir(w, p) /\ HasDotPrefix(BaseName(p))
RuleMatches(p) ==
    \E i \in 1..Len(cfg.Exclusions) : MatchString(cfg.Exclusions[i].Regex, PathString(p))
BasePathInside(p) ==
    { cfg.BasePaths[i] : i \in { k \in 1..Len(cfg.BasePaths) : IsUnder(cfg.BasePaths[k], p) } }

\* C5, as claimed: every directory visited whose name starts with '.' has its
\* record excluded and no record of any descendant is in the inventory,
\* whatever the rules are
C5_DotDirNoDescendant ==
    \A r \in Records(allInfo) :
        IsDotDir(world, r.FullName) =>
            /\ r.Excluded
            /\ \A q \in Records(allInfo) : ~IsUnder(q.FullName, r.FullName)

\* C5, amended: the record of a visited dot directory is excluded and the walk
\* never descends into it: a record of a descendant is in the inventory only
\* as, or below, a base path that itself lies inside that directory
C5_DotDirPruned ==
    \A r \in Records(allInfo) :
        IsDotDir(world, r.FullName) =>
            /\ r.Excluded
            /\ \A q \in Records(allInfo) :
                  IsUnder(q.FullName, r.FullName) =>
                      \E b \in BasePathInside(r.FullName) :
                          q.FullName = b \/ IsUnder(q.FullName, b)

\* a list was returned that holds a dot directory which has children on disk,
\* under an empty rule set
C5_Witness ==
    /\ ListBuilt
    /\ cfg.Exclusions = <<>>
    /\ \E r \in Records(allObjectsList) :
          /\ IsDotDir(world, r.FullName)
          /\ Children(world, r.FullName) # {}
          /\ BasePathInside(r.FullName) = {}

RemovePath(list, f) == SelectSeq(list, LAMBDA r : r.FullName # f)
WorldWithout(w, f) == [dirs |-> w.dirs \ {f}, files |-> w.files \ {f}, bad |-> w.bad \ {f}]
ConfigWithout(config, f) ==
    [config EXCEPT !.BasePaths = SelectSeq(config.BasePaths, LAMBDA b : b # f)]

\* the records other than f's are what buildFileList returns without f
SiblingsUnaffected(f) ==
    LET without == BuildFileList(ConfigWithout(cfg, f), WorldWithout(world, f))
    IN  ~without.err /\ without.list = RemovePath(allObjectsList, f)

\* C6, as claimed: a visited path matched by a rule has its record excluded;
\* a directory has no descendant record in the inventory; a file leaves the
\* records of the other entries as they would be without it
C6_RuleNoDescendant ==
    \A r \in Records(allInfo) :
        RuleMatches(r.FullName) =>
            /\ r.Excluded
            /\ IsDir(world, r.FullName) =>
                  \A q \in Records(allInfo) : ~IsUnder(q.FullName, r.FullName)
            /\ (ListBuilt /\ ~IsDir(world, r.FullName)) => SiblingsUnaffected(r.FullName)

\* C6, amended: as claimed, but a record of a descendant of a rule-excluded
\* directory may be in the inventory as, or below, a base path that itself
\* lies inside that directory
C6_RuleExclusion ==
    \A r \in Records(allInfo) :
        RuleMatches(r.FullName) =>
            /\ r.Excluded
            /\ IsDir(world, r.FullName) =>
                  \A q \in Records(allInfo) :
                      IsUnder(q.FullName, r.FullName) =>
                          \E b \in BasePathInside(r.FullName) :
                              q.FullName = b \/ IsUnder(q.FullName, b)
            /\ (ListBuilt /\ ~IsDir(world, r.FullName)) => SiblingsUnaffected(r.FullName)

\* a list was returned in which a rule excluded a file that has a sibling
\* visited after it, and a rule excluded a directory that has children on disk
C6_Witness ==
    /\ ListBuilt
    /\ \E i \in 1..Len(allObjectsList) :
          /\ RuleMatches(allObjectsList[i].FullName)
          /\ ~IsDir(world, allObjectsList[i].FullName)
          /\ \E j \in (i + 1)..Len(allObjectsList) :
                Parent(allObjectsList[j].FullName) = Parent(allObjectsList[i].FullName)
    /\ \E r \in Records(allObjectsList) :
          /\ RuleMatches(r.FullName)
          /\ IsDir(world, r.FullName)
          /\ Children(world, r.FullName) # {}

(***************************************************************************)
(* Properties of a run.                                                    *)
(***************************************************************************)
HashAbort == "hash calculation failures exceed allowable maximum"
Eligible == { i \in 1..Len(allObjectsList) : ~allObjectsList[i].Excluded }
Occurrences(seq, v) == Cardinality({ k \in 1..Len(seq) : seq[k] = v })
NoPutAttempted == \A i \in DOMAIN storeLog : storeLog[i] = <<>>
NothingHashed == \A i \in DOMAIN hashCount : hashCount[i] = 0

\* main has built the manifest and returned
ManifestBuilt == pc = "exited" /\ cause = "done" /\ ~cfg.Dryrun

\* C1: the manifest displayStorageStats built holds every record that is not
\* excluded and not transferred exactly once (as often as the inventory holds
\* it), and no record that is excluded or transferred
C1_ManifestCompleteness ==
    ManifestBuilt =>
        LET m == failedFilesDetails.FailedPaths
        IN  /\ \A k \in 1..Len(m) : ~m[k].Excluded /\ ~m[k].StorageSuccess
            /\ \A k \in 1..Len(m) : m[k] \in Records(allObjectsList)
            /\ \A i \in 1..Len(allObjectsList) :
                  (~allObjectsList[i].Excluded /\ ~allObjectsList[i].StorageSuccess) =>
                      Occurrences(m, allObjectsList[i]) =
                          Occurrences(allObjectsList, allObjectsList[i])

\* C1's case: a manifest was built from an inventory with an excluded record,
\* a transferred record, a record that was not hashed and one that was hashed
\* and not transferred
C1_Witness ==
    /\ ManifestBuilt
    /\ \E i \in 1..Len(allObjectsList) : allObjectsList[i].Excluded
    /\ \E i \in Eligible : allObjectsList[i].StorageSuccess
    /\ \E k \in 1..Len(failedFilesDetails.FailedPaths) :
          ~failedFilesDetails.FailedPaths[k].HashSuccess
    /\ \E k \in 1..Len(failedFilesDetails.FailedPaths) :
          failedFilesDetails.FailedPaths[k].HashSuccess

\* the number of records that are not excluded and were not hashed
EligibleHashFailures == Cardinality({ i \in Eligible : ~allObjectsList[i].HashSuccess })

\* C2: once main has asked displayBadHashes, the run is aborted if and only
\* if the records that are not excluded and not hashed are at least
\* MaxAllowedHashFailures; an aborted run has created no bucket, attempted no
\* put and written no failures file
C2_HashFailureGate ==
    ("MaxAllowedHashFailures" \in DOMAIN cfg) =>
        /\ (cause = HashAbort) <=> (EligibleHashFailures >= cfg.MaxAllowedHashFailures)
        /\ (cause = HashAbort) =>
              /\ pc = "exited" /\ exitCode = 1
              /\ ~bucketCreated
              /\ NoPutAttempted
              /\ storeCh = <<>>
              /\ manifestWrites = 0
              /\ failedFilesDetails = NoFailures

\* C2's case: the run was aborted with exactly as many failures as the
\* maximum, while another record was hashed
C2_Witness ==
    /\ cause = HashAbort
    /\ cfg.MaxAllowedHashFailures > 0
    /\ EligibleHashFailures = cfg.MaxAllowedHashFailures
    /\ \E i \in Eligible : allObjectsList[i].HashSuccess

\* C10: a reprocessing run that read a failures file with hasFailures false
\* has no record, goes from the load to exit status 0 and nowhere else, and
\* hashes nothing, creates no bucket, attempts no put and writes no file
C10_NothingToReprocess ==
    (cfg.Reprocess /\ failures # NoFailures /\ ~failures.HasFailures) =>
        /\ pc \in {"listBuilt", "exited"}
        /\ pc = "exited" => exitCode = 0
        /\ allObjectsList = <<>> /\ ~listErr
        /\ hashCh = <<>> /\ NothingHashed
        /\ ~bucketCreated
        /\ storeCh = <<>> /\ NoPutAttempted
        /\ manifestWrites = 0

\* C10's case: such a run has ended
C10_Witness ==
    /\ cfg.Reprocess
    /\ failures # NoFailures /\ ~failures.HasFailures
    /\ pc = "exited" /\ exitCode = 0

(***************************************************************************)
(* Properties of the reprocessing list.                                    *)
(***************************************************************************)
Statable(name) == Exists(world, name) /\ name \notin world.bad
Paths(list) == [i \in 1..Len(list) |-> list[i].FullName]

\* the records of list that are not excluded and not transferred, in order
RECURSIVE NotTransferred(_)
NotTransferred(list) ==
    IF list = <<>> THEN <<>>
    ELSE IF ~Head(list).Excluded /\ ~Head(list).StorageSuccess
         THEN <<Head(list)>> \o NotTransferred(Tail(list))
         ELSE NotTransferred(Tail(list))

\* C9: when the loop over the failed paths of a failures file with
\* hasFailures true returns and every listed path can be stat-ed, the list has
\* one record per entry, in the file's order, with the entry's path, not
\* excluded, with no hash, not hashed and not transferred; and when the file
\* was written by the run before, these are the paths of that run's records
\* that were not excluded and not transferred
C9_RoundTrip ==
    [][ ( /\ pc = "reprocessStat" /\ pc' = "listBuilt"
          /\ \A k \in 1..Len(failures.FailedPaths) :
                Statable(failures.FailedPaths[k].FullName) )
        => /\ failures.HasFailures
           /\ ~listErr'
           /\ Len(allObjectsList') = Len(failures.FailedPaths)
           /\ \A k \in 1..Len(allObjectsList') :
                 /\ allObjectsList'[k].FullName = failures.FailedPaths[k].FullName
                 /\ ~allObjectsList'[k].Excluded
                 /\ allObjectsList'[k].Hash = ""
                 /\ ~allObjectsList'[k].HashSuccess
                 /\ ~allObjectsList'[k].StorageSuccess
           /\ lastRun.wrote =>
                 Paths(allObjectsList') = Paths(NotTransferred(lastRun.objects))
      ]_vars

\* C9's case: a list of two records was loaded from the file the run before
\* wrote, and that run had excluded a record, transferred one, and hashed one
\* that it did not transfer
C9_Witness ==
    /\ pc = "listBuilt" /\ cfg.Reprocess /\ ~listErr
    /\ lastRun.wrote
    /\ Len(allObjectsList) >= 2
    /\ \E r \in Records(lastRun.objects) : r.StorageSuccess
    /\ \E r \in Records(lastRun.objects) : ~r.Excluded /\ r.HashSuccess /\ ~r.StorageSuccess
    /\ \E r \in Records(lastRun.objects) : r.Excluded

(***************************************************************************)
(* Properties of the retry loop.                                           *)
(***************************************************************************)
\* the transfer of record i is over
Transferred(i) ==
    /\ i \in DOMAIN storeLog
    /\ storeLog[i] # <<>>
    /\ \A w \in Routines : storeW[w].fi # i

\* the attempts the configuration allows for a record
MaxAttempts == IF cfg.StorageRetryCount <= 0 THEN 1 ELSE cfg.StorageRetryCount

\* the decimal digits of 2^n
TwoToThe(n) == Reverse(PowerOfTwoDigits(n))

\* n failed puts, each followed by a sleep of 2^1, 2^2, ..., 2^n seconds
RECURSIVE FailedPutsAndSleeps(_)
FailedPutsAndSleeps(n) ==
    IF n = 0 THEN <<>>
    ELSE FailedPutsAndSleeps(n - 1)
         \o << [op |-> "put", ok |-> FALSE], [op |-> "sleep", seconds |-> TwoToThe(n)] >>

Opened == [op |-> "open", ok |-> TRUE]

\* C3, as claimed: a record whose first k puts fail, k < maxAttempts, is put
\* k+1 times, with a sleep of 2^j seconds after the j-th failure and no other
\* sleep, and ends transferred
C3_RetrySuccess ==
    \A i \in Eligible :
        LET k == fate[allObjectsList[i].FullName].putFailures
        IN  (Transferred(i) /\ k < MaxAttempts) =>
                /\ storeLog[i] = <<Opened>> \o FailedPutsAndSleeps(k)
                                      \o << [op |-> "put", ok |-> TRUE] >>
                /\ allObjectsList[i].StorageSuccess

\* C4, as claimed: a record whose first maxAttempts puts fail is put
\* maxAttempts times, with a sleep after each failure but the last, and ends
\* not transferred; the goroutine has counted one error and goes on with the
\* next record unless that exceeds its budget
C4_RetryExhaustion ==
    \A i \in Eligible :
        LET k == fate[allObjectsList[i].FullName].putFailures
        IN  (Transferred(i) /\ k >= MaxAttempts) =>
                /\ storeLog[i] = <<Opened>> \o FailedPutsAndSleeps(MaxAttempts - 1)
                                      \o << [op |-> "put", ok |-> FALSE] >>
                /\ ~allObjectsList[i].StorageSuccess
                /\ pc = "storeWait" =>
                      /\ storeW[1].errCount = 1
                      /\ IF 1 > cfg.MaxStorageChannelErrorCount
                         THEN storeW[1].pc = "done" /\ storeCh # <<>>
                         ELSE storeW[1].pc # "done" \/ storeCh = <<>>

(***************************************************************************)
(* Properties of the pools.                                                *)
(***************************************************************************)
Outcome(i) ==
    [Hash |-> allObjectsList[i].Hash,
     HashSuccess |-> allObjectsList[i].HashSuccess,
     StorageSuccess |-> allObjectsList[i].StorageSuccess]

\* what a file's behaviour makes of its record when it is hashed and, if that
\* worked, transferred
Behaviour(name) ==
    [Hash |-> IF fate[name].hash THEN Md5Base64(Content(name)) ELSE "",
     HashSuccess |-> fate[name].hash,
     StorageSuccess |-> /\ fate[name].hash
                        /\ fate[name].open
                        /\ fate[name].putFailures < MaxAttempts]

\* C7, as claimed: at the end of a run every record has the outcome that the
\* behaviour of its file determines, whatever the pool sizes, the budgets and
\* the interleaving were
C7_OutcomeDeterminism ==
    (pc = "exited" /\ cause = "done") =>
        \A i \in Eligible : Outcome(i) = Behaviour(allObjectsList[i].FullName)

\* C7, amended: at the end of a run a record that a digest goroutine took from
\* the channel has the digest outcome its file determines, and one that a
\* transfer goroutine took has the transfer outcome its file determines; a
\* record left in a channel is not hashed, or not transferred
C7_OutcomeOfDequeued ==
    (pc = "exited" /\ cause = "done") =>
        \A i \in Eligible :
            LET b == Behaviour(allObjectsList[i].FullName)
            IN  Outcome(i) =
                    IF hashCount[i] = 0
                    THEN [Hash |-> "", HashSuccess |-> FALSE, StorageSuccess |-> FALSE]
                    ELSE IF storeLog[i] = <<>>
                    THEN [b EXCEPT !.StorageSuccess = FALSE]
                    ELSE b

\* C7's case: a run with two transfer goroutines has ended, with a record
\* transferred after a failed put and a record that was not hashed
C7_Witness ==
    /\ pc = "exited" /\ cause = "done"
    /\ cfg.StorageRoutinesCount = 2
    /\ \E i \in Eligible :
          /\ allObjectsList[i].StorageSuccess
          /\ \E k \in 1..Len(storeLog[i]) : storeLog[i][k] = [op |-> "put", ok |-> FALSE]
    /\ \E i \in Eligible : hashCount[i] = 1 /\ ~allObjectsList[i].HashSuccess

InChannel(ch, i) == \E k \in 1..Len(ch) : ch[k] = i
HashBarrier == pc = "hashWait" /\ \A w \in Routines : hashW[w].pc \in {"none", "done"}
StoreBarrier == pc = "storeWait" /\ \A w \in Routines : storeW[w].pc \in {"none", "done"}
Queued == { i \in Eligible : allObjectsList[i].HashSuccess }

\* C8, as claimed: when a goroutine has stopped on its budget, every record
\* that was on the channel has been taken and processed when wg.Wait returns
C8_GracefulDegradation ==
    /\ (HashBarrier /\ \E w \in Routines : hashW[w].errCount > hashW[w].maxAllowedErrors)
          => hashCh = <<>> /\ \A i \in Eligible : hashCount[i] = 1
    /\ (StoreBarrier /\ \E w \in Routines :
                           storeW[w].errCount > cfg.MaxStorageChannelErrorCount)
          => storeCh = <<>> /\ \A i \in Queued : storeLog[i] # <<>>

\* C8, amended: when wg.Wait returns, every record that was on the channel was
\* taken and processed once, or is still on it; records are still on it only
\* when every goroutine of the pool has stopped on its budget or the pool has
\* no goroutine
C8_DegradationWhileAlive ==
    /\ HashBarrier =>
          /\ \A i \in Eligible :
                hashCount[i] = (IF InChannel(hashCh, i) THEN 0 ELSE 1)
          /\ hashCh # <<>> =>
                \A w \in Routines :
                    hashW[w].pc = "done" => hashW[w].errCount > hashW[w].maxAllowedErrors
    /\ StoreBarrier =>
          /\ \A i \in Queued : (storeLog[i] = <<>>) <=> InChannel(storeCh, i)
          /\ storeCh # <<>> =>
                \A w \in Routines :
                    storeW[w].pc = "done" =>
                        storeW[w].errCount > cfg.MaxStorageChannelErrorCount

\* C8's case: one transfer goroutine has stopped on its budget, the other has
\* not, and the channel is empty when wg.Wait returns
C8_Witness ==
    /\ StoreBarrier
    /\ storeCh = <<>>
    /\ Cardinality(Queued) >= 2
    /\ \E w \in Routines : storeW[w].errCount > cfg.MaxStorageChannelErrorCount
    /\ \E w \in Routines : /\ storeW[w].pc = "done"
                           /\ storeW[w].errCount <= cfg.MaxStorageChannelErrorCount

\* ------------------------------------------------------------------
\* C11..C20

\* a reprocessing run past its load, with nothing parsed from the failures
\* file: os.ReadFile or json.Unmarshal failed
ManifestReadError ==
    /\ cfg.Reprocess
    /\ pc \notin {"main", "buildReprocessingList"}
    /\ failures = NoFailures

\* C11 as stated: a reprocessing run whose failures file cannot be read or
\* parsed ends with a non-zero exit status, nothing hashed and no put
C11_ReadErrorFatal ==
    (ManifestReadError /\ pc = "exited") =>
        /\ exitCode # 0
        /\ NothingHashed
        /\ NoPutAttempted

\* C11: a reprocessing run whose failures file cannot be read or parsed gets
\* an error and no record from the load, ends at main's empty-list exit with
\* status 0 before the error is looked at, and hashes nothing, creates no
\* bucket, attempts no put and writes no file
C11_ReadErrorEndsRun ==
    ManifestReadError =>
        /\ pc \in {"listBuilt", "exited"}
        /\ listErr /\ allObjectsList = <<>>
        /\ pc = "exited" => exitCode = 0 /\ cause = "nothing to reprocess"
        /\ NothingHashed
        /\ NoPutAttempted
        /\ ~bucketCreated
        /\ manifestWrites = 0

\* C11's case: the load failed and the run has ended
C11_Witness ==
    /\ ManifestReadError
    /\ listErr
    /\ pc = "exited"

\* the run has created the bucket: it is not a dry run and has passed the
\* gate on the hash failures
ContainerCreated == bucketCreated

\* main leaves by its last statement
ManifestStep == pc = "displayStorageStats" /\ pc' = "exited"

\* C12 as stated: a run that has created the bucket and has ended has
\* written the failures file exactly once
C12_ManifestAlwaysWritten ==
    (ContainerCreated /\ pc = "exited") => manifestWrites = 1

\* C12: a run that has created the bucket is never aborted, whatever hash
\* or put failures and goroutine exits there were; it gets to the manifest
\* step, which is taken once, when every transfer goroutine has returned,
\* builds the manifest from the whole list (with no failure too) and ends the
\* run with status 0; the failures file is written once there unless the
\* write itself fails, and nowhere else
C12_ManifestStepAlwaysReached ==
    /\ [](ContainerCreated =>
            /\ exitCode \in {-1, 0}
            /\ cause \in {"running", "done"}
            /\ pc \in {"writeAllObjectsToS3", "storeWait", "displayStorageStats",
                       "exited"}
            /\ manifestWrites = (IF pc = "exited" /\ failuresFile.kind = "json"
                                 THEN 1 ELSE 0))
    /\ [][(ContainerCreated /\ (pc' = "exited" \/ manifestWrites' # manifestWrites)) =>
            /\ ManifestStep
            /\ storeW = [w \in Routines |-> NoStoreRoutine]
            /\ failedFilesDetails'.FailedPaths = StorageFailures(allObjectsList, 1)
            /\ failedFilesDetails'.HasFailures = (failedFilesDetails'.FailedPaths # <<>>)
            /\ exitCode' = 0
            /\ manifestWrites' \in {manifestWrites, manifestWrites + 1}]_vars
    /\ ContainerCreated ~> ManifestBuilt

\* C12's case: the run has ended after hash failures, a goroutine that left
\* on its budget and failed puts, and another one that had no failure at all
C12_Witness ==
    /\ ManifestBuilt
    /\ manifestWrites = 1
    /\ \E i \in Eligible : ~allObjectsList[i].HashSuccess
    /\ \E i \in Eligible : /\ storeLog[i] # <<>>
                           /\ ~allObjectsList[i].StorageSuccess

\* C12's case with no failure: the failures file says hasFailures false
C12_WitnessNoFailure ==
    /\ ManifestBuilt
    /\ manifestWrites = 1
    /\ failuresFile.kind = "json" /\ ~failuresFile.hasFailures

\* the run is a dry run: main has read the flag
IsDryrun == "Dryrun" \in DOMAIN cfg /\ cfg.Dryrun

\* buildFileList or buildReprocessingList has returned to main
ListReturned ==
    pc \notin {"main", "buildFileList", "buildReprocessingList", "reprocessMenu",
               "reprocessStat"}

\* C13 and C14's case: handleDryrun printed its report and returned nil
DryrunComplete == IsDryrun /\ pc = "exited" /\ cause = "done"

\* C13: in a dry run no bucket is created, no put is attempted, no transfer
\* goroutine is started and nothing is put on their channel, no file is
\* hashed and no hash goroutine is started, the failures file is not written
\* or changed, and the records stay as the traversal (or the load) left
\* them: no hash, HashSuccess and StorageSuccess false
C13_DryrunIsolation ==
    /\ [](IsDryrun =>
            /\ ~bucketCreated
            /\ NoPutAttempted
            /\ storeCh = <<>>
            /\ storeW = [w \in Routines |-> NoStoreRoutine]
            /\ NothingHashed
            /\ hashCh = <<>>
            /\ hashW = [w \in Routines |-> NoHashRoutine]
            /\ manifestWrites = 0
            /\ failedFilesDetails = NoFailures
            /\ \A i \in 1..Len(allObjectsList) :
                  /\ allObjectsList[i].Hash = ""
                  /\ ~allObjectsList[i].HashSuccess
                  /\ ~allObjectsList[i].StorageSuccess)
    /\ [][(IsDryrun /\ ListReturned) =>
            /\ allObjectsList' = allObjectsList
            /\ failuresFile' = failuresFile]_vars

\* C13's case: a dry run over thirty files has printed its report and ended
C13_Witness ==
    /\ DryrunComplete
    /\ Cardinality(Eligible) > dryrunSampleFileListLength
    /\ exitCode = 0

\* a dry run has ended after ListBuckets answered and listed the dry-run bucket
DryrunListed ==
    /\ IsDryrun
    /\ pc = "exited"
    /\ cause \notin {"nothing to reprocess", "error when building file list",
                     "AWS config failed", "ListBuckets failed", "no dryrun bucket"}

\* the smaller of two numbers
Min(a, b) == IF a < b THEN a ELSE b

\* the paths of the first n records that are not excluded, in the list's order
FirstPaths(n) == [i \in 1..n |-> allObjectsList[objectsToStore[i]].FullName]

\* C14: a dry run that got its bucket listing with the dry-run bucket in it
\* ends without error, whatever the number of records that are not excluded,
\* and has printed the paths of the first 25 of them, or of all of them when
\* they are fewer
C14_DryrunSample ==
    DryrunListed =>
        /\ exitCode = 0
        /\ cause = "done"
        /\ sampleFileList =
              FirstPaths(Min(dryrunSampleFileListLength, Len(objectsToStore)))

\* C14 where the list is long enough: with 25 records or more that are not
\* excluded, the dry run ends without error and has printed the paths of the
\* first 25
C14_DryrunSampleOfLongList ==
    (DryrunListed /\ Len(objectsToStore) >= dryrunSampleFileListLength) =>
        /\ exitCode = 0
        /\ cause = "done"
        /\ sampleFileList = FirstPaths(dryrunSampleFileListLength)

\* hashAllFiles has returned in this run
DigestPhaseOver ==
    /\ "Dryrun" \in DOMAIN cfg /\ ~cfg.Dryrun
    /\ ListReturned
    /\ pc \notin {"listBuilt", "hashAllFiles", "hashWait"}

\* record i is not on its way to the store and never was
NeverQueued(i) ==
    /\ ~InChannel(storeCh, i)
    /\ \A w \in Routines : storeW[w].fi # i
    /\ storeLog[i] = <<>>
    /\ ~allObjectsList[i].StorageSuccess

\* record i is listed in the manifest that main built
InManifest(i) ==
    \E k \in 1..Len(failedFilesDetails.FailedPaths) :
        failedFilesDetails.FailedPaths[k] = Copy(allObjectsList[i])

\* C15 as stated: once the digest phase is over, any record with HashSuccess
\* false is never put on the transfer channel, has no put attempted, keeps
\* StorageSuccess false and is listed in the manifest when it is built
C15_DigestFailedNotTransferred ==
    DigestPhaseOver =>
        \A i \in 1..Len(allObjectsList) :
            ~allObjectsList[i].HashSuccess =>
                /\ NeverQueued(i)
                /\ ManifestBuilt => InManifest(i)

\* C15: once the digest phase is over, any record with HashSuccess false is
\* never put on the transfer channel, has no put attempted and keeps
\* StorageSuccess false; when the manifest is built it lists the record if
\* the record is not excluded, and does not list it if it is
C15_UnhashedNotTransferred ==
    DigestPhaseOver =>
        \A i \in 1..Len(allObjectsList) :
            ~allObjectsList[i].HashSuccess =>
                /\ NeverQueued(i)
                /\ ManifestBuilt => (InManifest(i) <=> ~allObjectsList[i].Excluded)

\* C15's case: the manifest is built in a run where hashFile failed for a
\* file, another file was transferred and a third record is excluded
C15_Witness ==
    /\ DigestPhaseOver
    /\ ManifestBuilt
    /\ \E i \in Eligible : hashCount[i] = 1 /\ ~allObjectsList[i].HashSuccess
    /\ \E i \in Eligible : allObjectsList[i].StorageSuccess
    /\ \E i \in 1..Len(allObjectsList) : allObjectsList[i].Excluded

\* no goroutine has taken record i, and it is on no channel
Untouched(i) ==
    /\ ~InChannel(hashCh, i)
    /\ ~InChannel(storeCh, i)
    /\ \A w \in Routines : hashW[w].fi # i /\ storeW[w].fi # i
    /\ i \in DOMAIN hashCount => hashCount[i] = 0
    /\ i \in DOMAIN storeLog => storeLog[i] = <<>>

\* C16: in every state of a run an excluded record has no hash, HashSuccess
\* false and StorageSuccess false, is on no channel and with no goroutine,
\* and was never hashed, opened or put
C16_ExcludedUntouched ==
    \A i \in 1..Len(allObjectsList) :
        allObjectsList[i].Excluded =>
            /\ allObjectsList[i].Hash = ""
            /\ ~allObjectsList[i].HashSuccess
            /\ ~allObjectsList[i].StorageSuccess
            /\ Untouched(i)

\* C16's case: a run has ended in which a file was excluded by a rule and
\* another file was hashed and transferred
C16_Witness ==
    /\ ManifestBuilt
    /\ \E i \in 1..Len(allObjectsList) :
          /\ allObjectsList[i].Excluded
          /\ allObjectsList[i].FullName \in world.files
    /\ \E i \in Eligible : allObjectsList[i].StorageSuccess

\* the transfer has begun: a record is on the channel, a goroutine was
\* started, a file was opened or put, or a record is marked as stored
TransferBegun ==
    \/ storeCh # <<>>
    \/ \E w \in Routines : storeW[w].pc # "none"
    \/ ~NoPutAttempted
    \/ \E i \in 1..Len(allObjectsList) : allObjectsList[i].StorageSuccess
    \/ pc \in {"writeAllObjectsToS3", "storeWait", "displayStorageStats"}

\* writeObjectsToAws returned an error for the bucket
NoContainer == cause \in {"no LocationConstraint", "CreateBucket failed"}

\* C17: no transfer goroutine is started and no put is issued before
\* CreateBucket has returned without error; when the region has no
\* LocationConstraint or CreateBucket fails, the run ends with status 1, no
\* put attempted, no record's StorageSuccess changed, no manifest built and
\* no failures file written
C17_ContainerBeforeTransfer ==
    /\ TransferBegun => bucketCreated /\ ~cfg.Dryrun
    /\ NoContainer =>
          /\ pc = "exited" /\ exitCode = 1
          /\ ~bucketCreated
          /\ ~TransferBegun
          /\ failedFilesDetails = NoFailures
          /\ manifestWrites = 0

\* C17's case: the run was aborted for the bucket after files were hashed
C17_Witness ==
    /\ NoContainer
    /\ \E i \in Eligible : allObjectsList[i].HashSuccess

\* C17's other case: puts are made, after the bucket was created
C17_WitnessTransfer ==
    /\ bucketCreated
    /\ \E w \in Routines : storeW[w].pc = "put"

\* filepath.Walk is about to visit an entry that the filesystem cannot read
VisitFails ==
    /\ pc = "buildFileList"
    /\ walkTodo # <<>>
    /\ ~Exists(world, Head(walkTodo)) \/ Head(walkTodo) \in world.bad

\* buildFileList has returned an error
TraversalFailed == ~cfg.Reprocess /\ listErr

\* C18: when the filesystem reports an error for an entry that a walk visits,
\* buildFileList returns at once with an error and an empty list, whatever
\* the walks of this and of earlier base paths had recorded; no later base
\* path is walked, and the run ends with status 1 with nothing hashed, no
\* bucket, no put and no manifest
C18_TraversalAbort ==
    /\ [][VisitFails => /\ TraversalFailed'
                        /\ pc' = "listBuilt"
                        /\ allObjectsList' = <<>>]_vars
    /\ [](TraversalFailed =>
            /\ allObjectsList = <<>>
            /\ objectsToStore = <<>>
            /\ walkTodo = <<>>
            /\ pc \in {"listBuilt", "exited"}
            /\ pc = "exited" =>
                  exitCode = 1 /\ cause = "error when building file list"
            /\ NothingHashed
            /\ NoPutAttempted
            /\ hashCh = <<>> /\ storeCh = <<>>
            /\ ~bucketCreated
            /\ failedFilesDetails = NoFailures
            /\ manifestWrites = 0)
    /\ [][TraversalFailed => walkIdx' = walkIdx /\ allInfo' = allInfo]_vars

\* C18's case: the run has ended on an error in the walk of the second base
\* path, after the walk of the first had recorded a file
C18_Witness ==
    /\ TraversalFailed
    /\ pc = "exited"
    /\ walkIdx = 2
    /\ \E i \in 1..Len(allInfo) : allInfo[i].FullName = cfg.BasePaths[1]

\* C18's other case: the run has ended on an error in the walk of the first
\* of two base paths
C18_WitnessFirstWalk ==
    /\ TraversalFailed
    /\ pc = "exited"
    /\ walkIdx = 1 /\ Len(cfg.BasePaths) = 2

\* buildReprocessingList is about to stat a listed path that cannot be stat-ed
StatFails ==
    /\ pc = "reprocessStat"
    /\ Len(fileData) < Len(failures.FailedPaths)
    /\ LET name == failures.FailedPaths[Len(fileData) + 1].FullName
       IN  ~Exists(world, name) \/ name \in world.bad

\* buildReprocessingList has returned an error after it had parsed a
\* failures file with HasFailures true
StatFailed == cfg.Reprocess /\ listErr /\ failures.HasFailures

\* C19: when os.Stat fails for a path that a failures file with HasFailures
\* true lists, buildReprocessingList returns at once with an error and an
\* empty list, whatever records it had built for earlier paths; the run ends
\* there, and no file is hashed, opened or put, no goroutine is started and
\* no bucket is created
C19_StatFailure ==
    /\ [][StatFails => /\ StatFailed'
                       /\ pc' = "listBuilt"
                       /\ allObjectsList' = <<>>]_vars
    /\ [](StatFailed =>
            /\ allObjectsList = <<>>
            /\ objectsToStore = <<>>
            /\ pc \in {"listBuilt", "exited"}
            /\ NothingHashed
            /\ NoPutAttempted
            /\ hashCh = <<>> /\ storeCh = <<>>
            /\ hashW = [w \in Routines |-> NoHashRoutine]
            /\ storeW = [w \in Routines |-> NoStoreRoutine]
            /\ ~bucketCreated
            /\ manifestWrites = 0)

\* C19's case: the run has ended after a stat that failed for the second
\* listed path, the first having been stat-ed
C19_Witness ==
    /\ StatFailed
    /\ pc = "exited"
    /\ Len(fileData) = 1
    /\ Len(failures.FailedPaths) = 2

\* handleDryrun returned an error: ListBuckets failed, or the dry-run bucket
\* is not in its answer
DryrunFailed == cause \in {"ListBuckets failed", "no dryrun bucket"}

\* C20: in a dry run, when ListBuckets fails or the dry-run bucket is not
\* among the buckets listed, handleDryrun returns an error, main ends the
\* process with status 1 and no sample of the file list is printed
C20_DryrunFailuresFatal ==
    DryrunFailed =>
        /\ IsDryrun
        /\ pc = "exited"
        /\ exitCode = 1
        /\ sampleFileList = <<>>

\* C20's case: a dry run over a list that is long enough for the sample has
\* ended because the dry-run bucket is missing
C20_Witness ==
    /\ cause = "no dryrun bucket"
    /\ Len(objectsToStore) >= dryrunSampleFileListLength

\* C20's other case: such a dry run has ended because ListBuckets failed
C20_WitnessListing ==
    /\ cause = "ListBuckets failed"
    /\ Len(objectsToStore) >= dryrunSampleFileListLength

\* ------------------------------------------------------------------
\* C21..C30

\* the paths of a list of records, as a set
PathSet(list) == { list[k].FullName : k \in 1..Len(list) }

\* the paths a failures file lists
ManifestPaths(file) == IF file.kind = "json" THEN PathSet(file.FailedPaths) ELSE {}

\* a put was attempted for record i in this run
PutAttempted(i) ==
    /\ i \in DOMAIN storeLog
    /\ \E k \in 1..Len(storeLog[i]) : storeLog[i][k].op = "put"

\* the paths for which the run before this one had a record that was not
\* excluded and not transferred
LeftByLastRun == PathSet(NotTransferred(lastRun.objects))

\* in a reprocessing run, puts are attempted only for paths that the loaded
\* failures file lists
PutsOnlyForListed ==
    cfg.Reprocess =>
        \A i \in 1..Len(allObjectsList) :
            PutAttempted(i) =>
                allObjectsList[i].FullName \in PathSet(failures.FailedPaths)

\* a reprocessing run writes a failures file only with paths of the one it
\* loaded, so that over reprocessing runs the paths on disk never grow
ManifestNeverGrows ==
    (cfg.Reprocess /\ failuresFile' # failuresFile) =>
        /\ ManifestPaths(failuresFile') \subseteq ManifestPaths(failuresFile)
        /\ ManifestPaths(failuresFile') \subseteq PathSet(failures.FailedPaths)

\* C21 as stated: in a reprocessing run, puts are attempted only for listed
\* paths, the failures file written lists only paths of the one loaded, the
\* paths on disk never grow over reprocessing runs, and no put is attempted
\* for a path that an earlier run has transferred
C21_NeverReuploads ==
    /\ []PutsOnlyForListed
    /\ [][ManifestNeverGrows]_vars
    /\ [](cfg.Reprocess =>
            \A i \in 1..Len(allObjectsList) :
                PutAttempted(i) => allObjectsList[i].FullName \notin StoredBefore)

\* C21: in a reprocessing run, puts are attempted only for listed paths, the
\* failures file written lists only paths of the one loaded, and the paths on
\* disk never grow over reprocessing runs; when the run before wrote its
\* failures file, puts are attempted only for paths of which that run had a
\* record that was not excluded and not transferred
C21_ReprocessesOnlyFailures ==
    /\ []PutsOnlyForListed
    /\ [][ManifestNeverGrows]_vars
    /\ []((cfg.Reprocess /\ lastRun.wrote) =>
            \A i \in 1..Len(allObjectsList) :
                PutAttempted(i) => allObjectsList[i].FullName \in LeftByLastRun)

\* C21's case: the second reprocessing run in a row puts a file, after the
\* run before it had transferred another file and written its failures file
C21_Witness ==
    /\ cfg.Reprocess
    /\ lastRun.wrote
    /\ StoredBefore # {}
    /\ \E r \in Records(lastRun.objects) : r.StorageSuccess
    /\ \E i \in 1..Len(allObjectsList) : PutAttempted(i)
    /\ Len(lastRun.objects) = 2 /\ Len(allObjectsList) = 1

\* C22: the key toKey returns has the length of the file name, holds no
\* backslash, has a forward slash wherever the name has a backslash and the
\* name's character everywhere else, and toKey returns the key itself for it
C22_KeyNormalization ==
    /\ Len(key) = Len(filename)
    /\ \A i \in 1..Len(key) :
          /\ key[i] # "\\"
          /\ filename[i] = "\\" => key[i] = "/"
          /\ filename[i] # "\\" => key[i] = filename[i]
    /\ ToKey(key) = key

\* C22's case: toKey was called with a name that has two backslashes, a
\* forward slash and another character
C22_Witness ==
    /\ pc = "toKey"
    /\ Len(filename) = 4
    /\ Cardinality({ i \in 1..4 : filename[i] = "\\" }) = 2
    /\ \E i \in 1..4 : filename[i] = "/"
    /\ \E i \in 1..4 : filename[i] = "a"
    /\ key # filename

\* every goroutine of the digest pool has returned, or was never started
DigestWorkersTerminated == \A w \in Routines : hashW[w].pc \in {"none", "done"}

\* every goroutine of the transfer pool has returned, or was never started
TransferWorkersTerminated == \A w \in Routines : storeW[w].pc \in {"none", "done"}

\* record i is in the hands of a digest goroutine, of a transfer goroutine
HeldByDigest(i) == \E w \in Routines : hashW[w].pc = "hashFile" /\ hashW[w].fi = i
HeldByTransfer(i) == \E w \in Routines : storeW[w].pc = "put" /\ storeW[w].fi = i

\* C23: the bucket is created, a transfer goroutine is started and a file is
\* opened or put only after hashAllFiles has returned (unless the run is a
\* dry run, which has no digest pool) and with every digest goroutine
\* returned; the manifest is built only with every transfer goroutine
\* returned; and no record is held by a digest goroutine while a transfer
\* goroutine runs
C23_PhaseOrdering ==
    /\ (bucketCreated \/ ~NoPutAttempted \/ \E w \in Routines : storeW[w].pc # "none")
          => DigestPhaseOver /\ DigestWorkersTerminated
    /\ (\E w \in Routines : hashW[w].pc # "none")
          => ~bucketCreated /\ NoPutAttempted /\ storeCh = <<>>
             /\ \A w \in Routines : storeW[w].pc = "none"
    /\ (failedFilesDetails # NoFailures \/ manifestWrites > 0 \/ ManifestBuilt)
          => TransferWorkersTerminated /\ pc = "exited"
    /\ \A i \in 1..Len(allObjectsList) : ~(HeldByDigest(i) /\ HeldByTransfer(i))

\* C23's case: two transfer goroutines are putting a file each, after two
\* digest goroutines have hashed the three files between them
C23_Witness ==
    /\ pc = "storeWait"
    /\ bucketCreated
    /\ \E i, j \in 1..Len(allObjectsList) :
          i # j /\ HeldByTransfer(i) /\ HeldByTransfer(j)
    /\ Cardinality({ i \in 1..Len(allObjectsList) : hashCount[i] = 1 }) = 3
    /\ DigestWorkersTerminated

\* the records a channel holds and the goroutines of its pool have in hand,
\* one entry per holder
HashHolders(i) ==
    Occurrences(hashCh, i) + Cardinality({ w \in Routines : hashW[w].fi = i })
StoreHolders(i) ==
    Occurrences(storeCh, i) + Cardinality({ w \in Routines : storeW[w].fi = i })

\* how often record i was taken from the transfer channel: each take is
\* followed by one os.Open
Opens(i) == Cardinality({ k \in 1..Len(storeLog[i]) : storeLog[i][k].op = "open" })

\* C24: in each pool a record is on the channel or in the hands of at most
\* one goroutine, never both and never two; it is hashed at most once and
\* taken from the transfer channel at most once, and once it was taken it is
\* not on the channel
C24_ExclusiveOwnership ==
    \A i \in 1..Len(allObjectsList) :
        /\ HashHolders(i) <= 1
        /\ StoreHolders(i) <= 1
        /\ i \in DOMAIN hashCount =>
              /\ hashCount[i] <= 1
              /\ hashCount[i] = 1 => ~InChannel(hashCh, i)
        /\ i \in DOMAIN storeLog =>
              /\ Opens(i) <= 1
              /\ Opens(i) = 1 => ~InChannel(storeCh, i)

\* C24's case: two digest goroutines hold a record each while a third record
\* waits on the channel
C24_Witness ==
    /\ hashCh # <<>>
    /\ \E w, v \in Routines :
          /\ w # v
          /\ hashW[w].pc = "hashFile" /\ hashW[v].pc = "hashFile"
          /\ hashW[w].fi # hashW[v].fi

\* C24's case in the transfer pool: two goroutines hold a record each after
\* a third record was taken and dealt with
C24_WitnessTransfer ==
    /\ \E w, v \in Routines :
          /\ w # v
          /\ storeW[w].pc = "put" /\ storeW[v].pc = "put"
          /\ storeW[w].fi # storeW[v].fi
    /\ \E i \in 1..Len(allObjectsList) : Opens(i) = 1 /\ ~HeldByTransfer(i)

\* record q is the record of a descendant of record r's directory
Descendant(q, r) == IsUnder(q.FullName, r.FullName)

\* the directory p is one that skipThisObject excludes
PrunedDir(p) == IsDir(world, p) /\ (IsDotDir(world, p) \/ RuleMatches(p))

\* C25 as stated: in a returned inventory, a directory record with Excluded
\* true has no descendant record
C25_ExcludedDirNoDescendant ==
    ListBuilt =>
        \A r \in Records(allObjectsList) :
            (IsDir(world, r.FullName) /\ r.Excluded) =>
                \A q \in Records(allObjectsList) : ~Descendant(q, r)

\* C25: in a returned inventory, every directory record has Excluded true;
\* the record of a directory that skipThisObject excludes has a descendant
\* record only at or below a base path that lies inside that directory; and
\* every other directory has a record for each of its children
C25_SubtreePruning ==
    ListBuilt =>
        \A r \in Records(allObjectsList) :
            IsDir(world, r.FullName) =>
                /\ r.Excluded
                /\ PrunedDir(r.FullName) =>
                      \A q \in Records(allObjectsList) :
                          Descendant(q, r) =>
                              \E b \in BasePathInside(r.FullName) :
                                  q.FullName = b \/ IsUnder(q.FullName, b)
                /\ ~PrunedDir(r.FullName) =>
                      \A c \in Children(world, r.FullName) :
                          \E q \in Records(allObjectsList) : q.FullName = c

\* C25's case: the returned inventory holds a directory that was pruned and
\* has children on disk, and a directory that was descended into, whose
\* record is excluded and which has descendant records
C25_Witness ==
    /\ ListBuilt
    /\ \E r \in Records(allObjectsList) :
          /\ PrunedDir(r.FullName)
          /\ Children(world, r.FullName) # {}
          /\ BasePathInside(r.FullName) = {}
    /\ \E r, q \in Records(allObjectsList) :
          /\ IsDir(world, r.FullName) /\ ~PrunedDir(r.FullName)
          /\ r.Excluded
          /\ Descendant(q, r)

\* no base path is another one again, or lies inside another one
BasePathsApart ==
    \A i, j \in 1..Len(cfg.BasePaths) :
        i # j => /\ cfg.BasePaths[i] # cfg.BasePaths[j]
                 /\ ~IsUnder(cfg.BasePaths[i], cfg.BasePaths[j])

\* C26 as stated: in a returned inventory no two records have the same path,
\* whatever the base paths are
C26_PathUniqueness ==
    ListBuilt =>
        \A i, j \in 1..Len(allObjectsList) :
            i # j => allObjectsList[i].FullName # allObjectsList[j].FullName

\* C26, for base paths that do not overlap: in a returned inventory no two
\* records have the same path
C26_UniqueWhenApart ==
    (ListBuilt /\ BasePathsApart) =>
        \A i, j \in 1..Len(allObjectsList) :
            i # j => allObjectsList[i].FullName # allObjectsList[j].FullName

\* C26's case: an inventory of several records was returned for one base path
C26_WitnessApart ==
    /\ ListBuilt
    /\ BasePathsApart
    /\ Len(allObjectsList) >= 3

\* filepath.Walk's order: an entry, then, when it is a directory for which
\* the WalkFunc did not return SkipDir, its children by name, each with what
\* is below it
RECURSIVE PreOrder(_), PreOrderAll(_)
PreOrder(p) ==
    <<p>> \o (IF IsDir(world, p) /\ ~PrunedDir(p)
              THEN PreOrderAll(SortedPaths(Children(world, p)))
              ELSE <<>>)

\* the entries visited for a sequence of roots, in the order of the roots
PreOrderAll(roots) ==
    IF roots = <<>> THEN <<>> ELSE PreOrder(Head(roots)) \o PreOrderAll(Tail(roots))

\* the WalkFunc is called for an entry and returns without error
VisitWithoutError == pc = "buildFileList" /\ walkTodo # <<>> /\ ~listErr'

\* C27: a call of the WalkFunc that returns without error appends one record,
\* for the entry visited; the returned inventory holds the entries in
\* pre-order, base path after base path in the configured order; a record has
\* Excluded false exactly when its entry is a file whose path no rule
\* matches, also when the file's name starts with a dot; every directory
\* record has Excluded true
C27_TraversalClassification ==
    /\ [][VisitWithoutError =>
            /\ Len(allInfo') = Len(allInfo) + 1
            /\ SubSeq(allInfo', 1, Len(allInfo)) = allInfo
            /\ allInfo'[Len(allInfo')].FullName = Head(walkTodo)]_vars
    /\ [](ListBuilt =>
            /\ Len(allObjectsList) = Len(PreOrderAll(cfg.BasePaths))
            /\ \A k \in 1..Len(allObjectsList) :
                  allObjectsList[k].FullName = PreOrderAll(cfg.BasePaths)[k])
    /\ [](\A r \in Records(allInfo) \cup Records(allObjectsList) :
            /\ ~r.Excluded <=> (~IsDir(world, r.FullName) /\ ~RuleMatches(r.FullName))
            /\ IsDir(world, r.FullName) => r.Excluded)

\* C27's case: an inventory was returned for two base paths that holds a file
\* whose name starts with a dot and that is not excluded, a file that a rule
\* excludes, and a directory that was descended into
C27_Witness ==
    /\ ListBuilt
    /\ Len(cfg.BasePaths) = 2
    /\ \E r \in Records(allObjectsList) :
          ~IsDir(world, r.FullName) /\ HasDotPrefix(BaseName(r.FullName)) /\ ~r.Excluded
    /\ \E r \in Records(allObjectsList) :
          ~IsDir(world, r.FullName) /\ RuleMatches(r.FullName) /\ r.Excluded
    /\ \E r, q \in Records(allObjectsList) :
          IsDir(world, r.FullName) /\ ~PrunedDir(r.FullName) /\ Descendant(q, r)

\* the sum of the error counts of the goroutines 1..n of a pool
RECURSIVE ErrCountSum(_, _)
ErrCountSum(pool, n) == IF n = 0 THEN 0 ELSE pool[n].errCount + ErrCountSum(pool, n - 1)

\* the records a digest goroutine has failed on, a transfer goroutine has
\* failed on (the open or the last put allowed)
HashFailures == { i \in 1..Len(allObjectsList) :
                    hashCount[i] = 1 /\ ~allObjectsList[i].HashSuccess }
TransferFailures == { i \in 1..Len(allObjectsList) :
                        /\ storeLog[i] # <<>>
                        /\ ~HeldByTransfer(i)
                        /\ ~allObjectsList[i].StorageSuccess }

\* a goroutine of a pool with budget max: it has counted at most max + 1
\* errors, it is in its loop only with at most max, and it has left its loop
\* with at most max only when the channel was empty
WithinBudget(r, max, ch) ==
    /\ r.errCount <= max + 1
    /\ r.pc \notin {"none", "done"} => r.errCount <= max
    /\ (r.pc = "done" /\ r.errCount <= max) => ch = <<>>

\* a step in which goroutine w of a pool counts an error or returns leaves
\* the other goroutines of the pool and main where they are
OthersUntouched(pool, poolAfter) ==
    \A w \in Routines :
        (pool[w].pc # "none" /\ poolAfter[w] # pool[w] /\ poolAfter[w].pc # "none") =>
            /\ \A v \in Routines \ {w} : poolAfter[v] = pool[v]
            /\ pc' = pc

\* C28: a goroutine leaves its loop on its own error count alone, when that
\* count is above the budget: it counts at most budget + 1 errors, goes on
\* taking records while its count is at most the budget and the channel holds
\* records; the counts of a pool add up to the records the pool failed on;
\* and a step of one goroutine changes no other goroutine and not main
C28_PerWorkerBudget ==
    /\ [](\A w \in Routines :
            /\ WithinBudget(hashW[w], hashW[w].maxAllowedErrors, hashCh)
            /\ storeW[w].pc # "none" =>
                  WithinBudget(storeW[w], cfg.MaxStorageChannelErrorCount, storeCh))
    /\ [](pc = "hashWait" => ErrCountSum(hashW, MaxRoutines) = Cardinality(HashFailures))
    /\ [](pc = "storeWait" =>
            ErrCountSum(storeW, MaxRoutines) = Cardinality(TransferFailures))
    /\ [][OthersUntouched(hashW, hashW') /\ OthersUntouched(storeW, storeW')]_vars

\* C28's case: with a budget of one, a transfer goroutine went on after its
\* first error and has left its loop after its second, while a record waits
\* on the channel for the other goroutine, which is in its loop
C28_Witness ==
    /\ pc = "storeWait"
    /\ cfg.MaxStorageChannelErrorCount = 1
    /\ storeCh # <<>>
    /\ \E w, v \in Routines :
          /\ storeW[w].pc = "done" /\ storeW[w].errCount = 2
          /\ storeW[v].pc = "range" /\ storeW[v].errCount = 0

\* C28's case in the digest pool: with a budget of zero, one goroutine has
\* left its loop after one error while the other is hashing
C28_WitnessDigest ==
    /\ pc = "hashWait"
    /\ \E w, v \in Routines :
          /\ hashW[w].pc = "done" /\ hashW[w].errCount = 1
          /\ hashW[w].maxAllowedErrors = 0
          /\ hashW[v].pc = "hashFile" /\ hashW[v].errCount = 0

\* the puts attempted for record i
Puts(i) == Cardinality({ k \in 1..Len(storeLog[i]) : storeLog[i][k].op = "put" })

\* a goroutine is running: it was started and has not returned
Running(r) == r.pc \notin {"none", "done"}

\* C29: every goroutine of the digest pool and of the transfer pool that
\* runs returns; wg.Wait of hashAllFiles and of writeAllObjectsToS3 returns,
\* for every pool size from 0 on, every budget and every pattern of failures
\* per file; and no record is put more often than max(1, StorageRetryCount)
C29_PoolTermination ==
    /\ \A w \in Routines : Running(hashW[w]) ~> ~Running(hashW[w])
    /\ \A w \in Routines : Running(storeW[w]) ~> ~Running(storeW[w])
    /\ (pc = "hashWait") ~> (pc = "displayBadHashes")
    /\ (pc = "storeWait") ~> (pc = "displayStorageStats")
    /\ [](\A i \in DOMAIN storeLog :
            Puts(i) > 0 => Puts(i) <= MaxAttempts)

\* C29's case: wg.Wait of the transfer pool has returned after a record was
\* put as often as allowed, twice or more, without success, and with a
\* record left on the channel by goroutines that stopped on their budget
C29_Witness ==
    /\ pc = "displayStorageStats"
    /\ MaxAttempts >= 2
    /\ \E i \in DOMAIN storeLog :
          Puts(i) = MaxAttempts /\ ~allObjectsList[i].StorageSuccess
    /\ storeCh # <<>>

\* C29's case for a pool without goroutines: wg.Wait of the digest pool has
\* returned with every record on the channel
C29_WitnessEmptyPool ==
    /\ pc = "displayBadHashes"
    /\ Len(hashCh) = 2
    /\ NothingHashed

\* the goroutines of a pool that were started, that hold a record
Started(pool) == { w \in Routines : pool[w].pc # "none" }
Busy(pool) == { w \in Routines : pool[w].fi # 0 }

\* a goroutine of the pool is started in this step
StartsOne(pool, poolAfter) ==
    \E w \in Routines : pool[w].pc = "none" /\ poolAfter[w].pc # "none"

\* C30: at most HashRoutinesCount files are being hashed and at most
\* StorageRoutinesCount puts are in flight at any moment; while a pool runs
\* it has as many goroutines as configured; and goroutines are started only
\* by hashAllFiles and writeAllObjectsToS3 when they launch their pool
C30_BoundedParallelism ==
    /\ [](/\ Cardinality(Busy(hashW)) <= cfg.HashRoutinesCount
          /\ Cardinality(Busy(storeW)) <= cfg.StorageRoutinesCount
          /\ pc = "hashWait" => Cardinality(Started(hashW)) = cfg.HashRoutinesCount
          /\ pc = "storeWait" => Cardinality(Started(storeW)) = cfg.StorageRoutinesCount
          /\ pc # "hashWait" => Started(hashW) = {}
          /\ pc # "storeWait" => Started(storeW) = {})
    /\ [][/\ StartsOne(hashW, hashW') => pc = "hashAllFiles"
          /\ StartsOne(storeW, storeW') => pc = "writeAllObjectsToS3"]_vars

\* C30's case: every goroutine of a digest pool of two is hashing a file
\* while a third file waits on the channel
C30_Witness ==
    /\ pc = "hashWait"
    /\ cfg.HashRoutinesCount = 2
    /\ Cardinality(Busy(hashW)) = 2
    /\ hashCh # <<>>

\* C30's case in the transfer pool: the one goroutine of the pool puts a file
\* while two files wait on the channel
C30_WitnessTransfer ==
    /\ pc = "storeWait"
    /\ cfg.StorageRoutinesCount = 1
    /\ Cardinality(Busy(storeW)) = 1
    /\ Len(storeCh) = 2

\* ------------------------------------------------------------------
\* C31..C37

\* the menu of buildReprocessingList is open
MenuOpen == pc = "reprocessMenu"

\* C31: the menu is left only by a scanned 2 ("Reprocess now"), after which
\* the records are built, or by a scanned 3 ("Cancel"), after which the load
\* returns an empty list and no error; any other round, a failed scan
\* included, leaves the menu open and changes no list and no file; a run that
\* was cancelled ends with status 0 without a goroutine, a hash, a bucket or a
\* put; with NoConfirm the menu is never opened
C31_ConfirmationMenu ==
    /\ [][(MenuOpen /\ ~MenuOpen') =>
            /\ choice' \in {2, 3}
            /\ choice' = 2 => pc' = "reprocessStat" /\ allObjectsList' = allObjectsList
            /\ choice' = 3 => pc' = "listBuilt" /\ allObjectsList' = <<>> /\ ~listErr']_vars
    /\ [][(MenuOpen /\ MenuOpen') =>
            /\ choice' \notin {2, 3}
            /\ UNCHANGED <<failures, fileData, listVars, failuresFile, world>>]_vars
    /\ [](choice = 3 =>
            /\ pc \in {"listBuilt", "exited"}
            /\ allObjectsList = <<>> /\ ~listErr
            /\ pc = "exited" => exitCode = 0 /\ cause = "nothing to reprocess"
            /\ NothingHashed /\ NoPutAttempted /\ ~bucketCreated
            /\ failedFilesDetails = NoFailures /\ manifestWrites = 0
            /\ \A w \in Routines : hashW[w].pc = "none" /\ storeW[w].pc = "none")
    /\ []((cfg.Reprocess /\ "NoConfirm" \in DOMAIN cfg) =>
            IF cfg.NoConfirm THEN ~MenuOpen /\ choice = 0
            ELSE (pc \notin {"reprocessMenu"}) => choice \in {2, 3})

\* C31's case: the menu was shown for a failures file that lists two records
\* and the run was cancelled and has ended
C31_Witness ==
    /\ choice = 3
    /\ cfg.Reprocess
    /\ ~cfg.NoConfirm
    /\ pc = "exited"
    /\ Len(failures.FailedPaths) = 2

\* C31's case for a round that leaves the menu open, and for a load that went
\* on after "Reprocess now"
C31_WitnessListed == MenuOpen /\ choice = 1
C31_WitnessProceed == choice = 2 /\ pc = "storeWait" /\ ~cfg.NoConfirm

\* the fields of record i that a step changes
ChangedFields(i) ==
    { f \in DOMAIN allObjectsList[i] : allObjectsList'[i][f] # allObjectsList[i][f] }

\* a step changes only fields of the set fields, in any record, and neither
\* adds nor removes a record
ChangesOnly(fields) ==
    /\ Len(allObjectsList') = Len(allObjectsList)
    /\ \A i \in 1..Len(allObjectsList) : ChangedFields(i) \subseteq fields

\* C32: the step that builds the manifest changes no record, and each entry
\* of the manifest has the six fields of a record of the list as they are
\* then; the manifest in memory is changed by no other step; while the digest
\* pool runs only Hash and HashSuccess of a record change, and while the
\* transfer pool runs only StorageSuccess
C32_LedgerReadOnly ==
    /\ [][ManifestStep =>
            /\ allObjectsList' = allObjectsList
            /\ \A k \in 1..Len(failedFilesDetails'.FailedPaths) :
                  \E i \in 1..Len(allObjectsList) :
                      failedFilesDetails'.FailedPaths[k] = allObjectsList[i]]_vars
    /\ [][failedFilesDetails' # failedFilesDetails => ManifestStep]_vars
    /\ [][pc = "hashWait" => ChangesOnly({"Hash", "HashSuccess"})]_vars
    /\ [][pc = "storeWait" => ChangesOnly({"StorageSuccess"})]_vars
    /\ [][(pc \in {"displayBadHashes", "writeObjectsToAws", "writeAllObjectsToS3",
                   "hashAllFiles"}) => ChangesOnly({})]_vars

\* C32's case: the manifest was built with an entry that has a hash, for a
\* list in which the digest pool has set a hash and the transfer pool has
\* marked a record as stored
C32_Witness ==
    /\ ManifestBuilt
    /\ \E k \in 1..Len(failedFilesDetails.FailedPaths) :
          /\ failedFilesDetails.FailedPaths[k].HashSuccess
          /\ failedFilesDetails.FailedPaths[k].Hash # ""
    /\ \E i \in 1..Len(allObjectsList) : allObjectsList[i].StorageSuccess

\* a put of record i has returned without error in this run
PutSucceeded(i) ==
    /\ i \in DOMAIN storeLog
    /\ \E k \in 1..Len(storeLog[i]) : storeLog[i][k] = [op |-> "put", ok |-> TRUE]

\* C33: a record has StorageSuccess true only when a put of it has returned
\* without error in this run, and then it is not excluded and was hashed;
\* every input handed to PutObject names the run's bucket, the key of the
\* record's path and the hash that the digest pool has stored on the record
C33_TransferOkSound ==
    /\ \A i \in 1..Len(allObjectsList) :
          allObjectsList[i].StorageSuccess =>
              /\ PutSucceeded(i)
              /\ ~allObjectsList[i].Excluded
              /\ allObjectsList[i].HashSuccess
    /\ \A p \in poi :
          /\ PutAttempted(p.fi)
          /\ p.Bucket = BucketName
          /\ p.Key = ToKey(PathString(allObjectsList[p.fi].FullName))
          /\ allObjectsList[p.fi].HashSuccess /\ hashCount[p.fi] = 1
          /\ p.ContentMD5 = allObjectsList[p.fi].Hash
          /\ p.ContentMD5 = Md5Base64(Content(allObjectsList[p.fi].FullName))
    /\ \A i \in 1..Len(allObjectsList) :
          PutAttempted(i) => \E p \in poi : p.fi = i

\* C33's case: of two records that were put, one is stored and the other is
\* not, after all its puts failed
C33_Witness ==
    /\ \E i \in 1..Len(allObjectsList) :
          allObjectsList[i].StorageSuccess /\ PutSucceeded(i)
    /\ \E i \in 1..Len(allObjectsList) :
          /\ ~allObjectsList[i].StorageSuccess
          /\ PutAttempted(i) /\ ~HeldByTransfer(i)
    /\ Cardinality(poi) >= 2

\* record i was left on the digest channel when hashAllFiles returned, on the
\* transfer channel when writeAllObjectsToS3 returned
LeftInHashQueue(i) == DigestPhaseOver /\ InChannel(hashCh, i)
LeftInStoreQueue(i) == pc \in {"displayStorageStats", "exited"} /\ InChannel(storeCh, i)

\* main has gone on after displayBadHashes
PastHashGate ==
    /\ DigestPhaseOver
    /\ pc # "displayBadHashes"
    /\ pc = "exited" => cause # HashAbort

\* C34: a record left on the digest channel is not excluded, was never
\* hashed and has HashSuccess false; main goes on after displayBadHashes only
\* when the records left are fewer than MaxAllowedHashFailures; the record is
\* then never put on the transfer channel and is listed in the manifest when
\* it is built. A record left on the transfer channel was never opened or
\* put, has StorageSuccess false and is listed in the manifest when it is
\* built
C34_NeverDequeued ==
    /\ \A i \in 1..Len(allObjectsList) :
          LeftInHashQueue(i) =>
              /\ ~allObjectsList[i].Excluded
              /\ hashCount[i] = 0
              /\ ~allObjectsList[i].HashSuccess
              /\ NeverQueued(i)
              /\ ManifestBuilt => InManifest(i)
    /\ PastHashGate => Len(hashCh) < cfg.MaxAllowedHashFailures
    /\ \A i \in 1..Len(allObjectsList) :
          LeftInStoreQueue(i) =>
              /\ storeLog[i] = <<>>
              /\ ~allObjectsList[i].StorageSuccess
              /\ ManifestBuilt => InManifest(i)

\* C34's case: a digest pool without goroutines has left the one record on
\* its channel, the run has gone on and the manifest lists the record
C34_Witness ==
    /\ ManifestBuilt
    /\ hashCh # <<>>
    /\ \A i \in 1..Len(allObjectsList) : LeftInHashQueue(i) => InManifest(i)

\* C34's case in the transfer pool: a record was left on the channel by
\* goroutines that stopped on their budget, and the manifest lists it
C34_WitnessTransfer ==
    /\ ManifestBuilt
    /\ storeCh # <<>>
    /\ ~NoPutAttempted
    /\ \A i \in 1..Len(allObjectsList) : LeftInStoreQueue(i) => InManifest(i)

\* the sleeps of the transfer pool for record i
Sleeps(i) == Cardinality({ k \in 1..Len(storeLog[i]) : storeLog[i][k].op = "sleep" })

\* C35: with a StorageRetryCount of 0 or less, a record whose file was
\* opened is put once and no more, nothing is slept, and once the goroutine
\* is done with the record its StorageSuccess is what that put returned
C35_ZeroAttemptsIsOne ==
    ("StorageRetryCount" \in DOMAIN cfg /\ cfg.StorageRetryCount <= 0) =>
        \A i \in DOMAIN storeLog :
            /\ Puts(i) <= 1
            /\ Sleeps(i) = 0
            /\ (Transferred(i) /\ storeLog[i][1].ok) =>
                  /\ Len(storeLog[i]) = 2
                  /\ storeLog[i][2].op = "put"
                  /\ allObjectsList[i].StorageSuccess = storeLog[i][2].ok

\* C35's case: with a StorageRetryCount of -1, one record was put once
\* without success and another once with success
C35_Witness ==
    /\ "StorageRetryCount" \in DOMAIN cfg /\ cfg.StorageRetryCount = -1
    /\ \E i, j \in DOMAIN storeLog :
          /\ Transferred(i) /\ Transferred(j)
          /\ Puts(i) = 1 /\ ~allObjectsList[i].StorageSuccess
          /\ Puts(j) = 1 /\ allObjectsList[j].StorageSuccess

\* os.Open of record i's file has failed in the transfer pool
OpenFailed(i) == storeLog[i] # <<>> /\ ~storeLog[i][1].ok

\* a goroutine takes a record whose file it cannot open
OpenFails ==
    \E i \in DOMAIN storeLog : storeLog[i] = <<>> /\ storeLog'[i] # <<>> /\ OpenFailed(i)'

\* C36: a record whose file a transfer goroutine cannot open has no put and
\* no sleep after the open, has StorageSuccess false and is listed in the
\* manifest when main has built it; the step that fails to open it adds
\* exactly one to the errCount of the goroutine that took the record and
\* leaves the other goroutines alone
C36_TransferOpenFailure ==
    /\ [](\A i \in DOMAIN storeLog :
            OpenFailed(i) =>
                /\ Len(storeLog[i]) = 1
                /\ ~allObjectsList[i].StorageSuccess
                /\ ManifestBuilt => InManifest(i))
    /\ [][OpenFails =>
            \E w \in Routines :
                /\ storeW[w].pc = "range"
                /\ storeW'[w].errCount = storeW[w].errCount + 1
                /\ \A v \in Routines \ {w} : storeW'[v] = storeW[v]]_vars

\* C36's case: main has built the manifest after a run in which a file could
\* not be opened for transfer while another was put
C36_Witness ==
    /\ ManifestBuilt
    /\ \E i, j \in DOMAIN storeLog :
          /\ OpenFailed(i) /\ InManifest(i)
          /\ Puts(j) = 1 /\ allObjectsList[j].StorageSuccess

\* calcBackoff has returned for an exponent its guard lets through
BackoffReturned ==
    /\ backoff.pc = "returned"
    /\ backoff.exponent >= 0
    /\ backoff.exponent <= highestReasonableExponentThatWontOverflowInt32

\* a Duration of 2^n seconds, in nanoseconds
PowerOfTwoSeconds(n) ==
    [neg |-> FALSE, ns |-> ExponentialRetryDelayString(n) \o <<0, 0, 0, 0, 0, 0, 0, 0, 0>>]

\* C37 as stated: calcBackoff returns an error for an exponent below 0 or
\* above 46340, and for every other exponent no error and a Duration of
\* exactly 2^exponent seconds (which is never the zero Duration)
C37_CalcBackoff ==
    backoff.pc = "returned" =>
        IF BackoffReturned
        THEN /\ ~backoff.err
             /\ backoff.duration.ns # <<0>>
             /\ backoff.duration = PowerOfTwoSeconds(backoff.exponent)
        ELSE backoff.err

\* what calcBackoff does return: an error outside 0..46340; one nanosecond
\* for exponent 0; 2^exponent seconds up to exponent 33 with a 64-bit int
\* and up to 30 with a 32-bit int; with a 64-bit int an error from exponent
\* 34 to 63 and the zero Duration without error from 64 on; with a 32-bit
\* int -2^31 seconds for exponent 31 and the zero Duration from 32 on
C37_WhatIsReturned ==
    backoff.pc = "returned" =>
        LET exponent == backoff.exponent
            size == Len(backoff.total)
            zero == [neg |-> FALSE, ns |-> <<0>>]
        IN  IF ~BackoffReturned THEN backoff.err /\ backoff.duration = zero
            ELSE IF exponent = 0
            THEN ~backoff.err /\ backoff.duration = [neg |-> FALSE, ns |-> <<1>>]
            ELSE IF exponent <= size - 2 /\ exponent <= 33
            THEN ~backoff.err /\ backoff.duration = PowerOfTwoSeconds(exponent)
            ELSE IF exponent = size - 1 /\ size = 32
            THEN /\ ~backoff.err
                 /\ backoff.duration = [PowerOfTwoSeconds(exponent) EXCEPT !.neg = TRUE]
            ELSE IF exponent <= size - 1
            THEN backoff.err /\ backoff.duration = zero
            ELSE ~backoff.err /\ backoff.duration = zero

\* C37's cases: calcBackoff has returned for exponent 0; for exponent 34 with
\* a 64-bit int; for exponent 46340
C37_WitnessZero == backoff.pc = "returned" /\ backoff.exponent = 0
C37_WitnessOverflow ==
    /\ backoff.pc = "returned" /\ backoff.exponent = 34 /\ Len(backoff.total) = 64
    /\ backoff.err
C37_WitnessHighest ==
    /\ backoff.pc = "returned"
    /\ backoff.exponent = highestReasonableExponentThatWontOverflowInt32
    /\ ~backoff.err
====
